---- MODULE Spec2Model ----
(***************************************************************************)
(* The OpenAPI documentation engine of fortigate-playground: endpoint      *)
(* extraction, tag grouping, reference resolution and example synthesis    *)
(* (src/utils/openApiParser.ts) and the code generators                    *)
(* (src/utils/codeGenerator.ts) over a parsed specification document.      *)
(*                                                                         *)
(* A JavaScript value is a tagged tuple.  A string is a sequence of        *)
(* symbols; a symbol stands for one character ("#", "/") or for an         *)
(* indivisible run of characters that holds no "#" and no "/" (a name).    *)
(* The specification document is one such value, a tree of objects and     *)
(* arrays as JSON.parse builds it.  An object or array that belongs to the *)
(* document is handed around by reference: Ptr(path) is the reference to   *)
(* the object found at path from the document root.  Objects and arrays    *)
(* created by a function while it runs are carried by value.               *)
(***************************************************************************)
EXTENDS Integers, Sequences, FiniteSets, TLC

----------------------------------------------------------------------------
(* Bounds of the checked documents *)

\* named schemas under components.schemas
NumSchemas == 2
\* most properties of an object schema, most branches of a composition
MaxProps == 2
\* the loads a run of the hook starts
MaxLoads == 2

----------------------------------------------------------------------------
(* JavaScript values *)

Undefined == <<"undefined">>
Null == <<"null">>
Bool(b) == <<"bool", b>>
Num(n) == <<"num", n>>
Str(s) == <<"str", s>>
Arr(es) == <<"arr", es>>
Obj(ps) == <<"obj", ps>>
Ptr(path) == <<"ptr", path>>
Fn(name) == <<"fn", name>>
Throw(kind) == <<"throw", kind>>

Tag(v) == v[1]
IsThrow(v) == Tag(v) = "throw"

\* ToBoolean: undefined, null, false, 0 and "" are falsy, everything else truthy
Truthy(v) ==
  CASE Tag(v) = "undefined" -> FALSE
    [] Tag(v) = "null" -> FALSE
    [] Tag(v) = "bool" -> v[2]
    [] Tag(v) = "num" -> v[2] # 0
    [] Tag(v) = "str" -> v[2] # <<>>
    [] OTHER -> TRUE

\* typeof v === 'object' (null included, functions excluded)
TypeofObject(v) == Tag(v) \in {"null", "obj", "arr", "ptr"}

\* the property names that are array indices, in index order
IndexKeys == <<"0", "1", "2", "3", "4">>

\* 1 + the array index a property name denotes, 0 when it is no index
KeyIndex(k) ==
  IF \E i \in 1..Len(IndexKeys) : IndexKeys[i] = k
  THEN CHOOSE i \in 1..Len(IndexKeys) : IndexKeys[i] = k
  ELSE 0

\* the properties every non-nullish value inherits from its prototype
\* (the property names of the model hold no "length")
ProtoKeys == {"constructor"}

\* own enumerable properties of a container, as Object.entries lists them
Entries(c) ==
  CASE Tag(c) = "obj" -> c[2]
    [] Tag(c) = "arr" -> [i \in 1..Len(c[2]) |-> <<IndexKeys[i], c[2][i]>>]
    [] Tag(c) = "str" -> [i \in 1..Len(c[2]) |-> <<IndexKeys[i], Str(<<c[2][i]>>)>>]
    [] OTHER -> <<>>

HasOwn(c, k) == \E i \in 1..Len(Entries(c)) : Entries(c)[i][1] = k

GetOwn(c, k) ==
  LET es == Entries(c) IN es[CHOOSE i \in 1..Len(es) : es[i][1] = k][2]

Inherited(k) == IF k \in ProtoKeys THEN Fn(k) ELSE Undefined

----------------------------------------------------------------------------
(* The document as a store of objects addressed by path *)

RECURSIVE At(_, _)
\* the value stored at path (every step of path is an own property)
At(doc, path) ==
  IF path = <<>> THEN doc
  ELSE GetOwn(At(doc, SubSeq(path, 1, Len(path) - 1)), path[Len(path)])

\* reading the stored value at path: a primitive by value, an object by reference
Load(doc, path) ==
  LET c == At(doc, path) IN IF Tag(c) \in {"obj", "arr"} THEN Ptr(path) ELSE c

\* the object a value denotes: the stored object behind a reference
Target(doc, v) == IF Tag(v) = "ptr" THEN At(doc, v[2]) ELSE v

\* the property read v[k] (v neither null nor undefined)
Prop(doc, v, k) ==
  CASE Tag(v) = "ptr" ->
         IF HasOwn(At(doc, v[2]), k) THEN Load(doc, v[2] \o <<k>>) ELSE Inherited(k)
    [] Tag(v) \in {"undefined", "null"} -> Throw("TypeError")
    [] OTHER -> IF HasOwn(v, k) THEN GetOwn(v, k) ELSE Inherited(k)

\* the optional read v?.[k]
OptProp(doc, v, k) ==
  IF Tag(v) \in {"undefined", "null"} THEN Undefined ELSE Prop(doc, v, k)

RECURSIVE Deref(_, _)
\* the plain value behind a value that may hold references into the document
Deref(doc, v) ==
  CASE Tag(v) = "ptr" -> At(doc, v[2])
    [] Tag(v) = "arr" -> Arr([i \in 1..Len(v[2]) |-> Deref(doc, v[2][i])])
    [] Tag(v) = "obj" ->
         Obj([i \in 1..Len(v[2]) |-> <<v[2][i][1], Deref(doc, v[2][i][2])>>])
    [] OTHER -> v

----------------------------------------------------------------------------
(* String operations *)

\* s.startsWith(prefix)
StartsWith(s, prefix) ==
  Len(s) >= Len(prefix) /\ SubSeq(s, 1, Len(prefix)) = prefix

\* s.slice(n)
Slice(s, n) == SubSeq(s, n + 1, Len(s))

RECURSIVE JoinSymbols(_)
\* the property name a run of symbols spells
JoinSymbols(s) == IF s = <<>> THEN "" ELSE Head(s) \o JoinSymbols(Tail(s))

RECURSIVE Split(_, _)
\* s.split(sep): the runs between separators, never fewer than one
Split(s, sep) ==
  IF \E i \in 1..Len(s) : s[i] = sep
  THEN LET i == CHOOSE j \in 1..Len(s) : s[j] = sep /\ \A h \in 1..(j - 1) : s[h] # sep
       IN <<JoinSymbols(SubSeq(s, 1, i - 1))>> \o Split(SubSeq(s, i + 1, Len(s)), sep)
  ELSE <<JoinSymbols(s)>>

----------------------------------------------------------------------------
(* Reference Resolver *)

\* frames of resolveSchema and generateExampleFromSchema the call stack holds
\* before the engine throws RangeError. A call on a document without a cycle
\* nests fewer than NumSchemas + 4 of them (a request body reference, a chain
\* through every named schema, one child), so that only an endless recursion
\* reaches the limit
StackLimit == NumSchemas + 5

RECURSIVE WalkParts(_, _, _)
RECURSIVE WalkNext(_, _, _)
\* the loop of resolveRef: one property read per part
WalkParts(doc, current, parts) ==
  IF parts = <<>> THEN current
  ELSE WalkNext(doc, OptProp(doc, current, Head(parts)), Tail(parts))

\* the rest of the loop after a read: absent at the first falsy value
WalkNext(doc, next, parts) ==
  IF ~Truthy(next) THEN Undefined ELSE WalkParts(doc, next, parts)

resolveRef(doc, ref) ==
  IF Tag(ref) # "str" THEN Throw("TypeError")
  ELSE IF ~StartsWith(ref[2], <<"#", "/">>) THEN Undefined
  ELSE WalkParts(doc, Ptr(<<>>), Split(Slice(ref[2], 2), "/"))

\* resolveSchema without the recursive step: the target of the first reference
\* is returned as it is
resolveSchemaOnce(doc, schema, d) ==
  IF d > StackLimit THEN Throw("RangeError")
  ELSE IF ~Truthy(schema) THEN Undefined
  ELSE LET ref == Prop(doc, schema, "$ref")
       IN IF Truthy(ref)
          THEN LET resolved == resolveRef(doc, ref)
               IN IF IsThrow(resolved) \/ Truthy(resolved) THEN resolved ELSE Undefined
          ELSE schema

RECURSIVE resolveSchema(_, _, _)
RECURSIVE ResolveTarget(_, _, _)
\* resolveSchema at call depth d; the engine's call stack holds StackLimit frames
resolveSchema(doc, schema, d) ==
  IF d > StackLimit THEN Throw("RangeError")
  ELSE IF ~Truthy(schema) THEN Undefined
  ELSE IF Truthy(Prop(doc, schema, "$ref"))
       THEN ResolveTarget(doc, resolveRef(doc, Prop(doc, schema, "$ref")), d)
       ELSE schema

\* the rest of resolveSchema once resolveRef has returned (or thrown):
\* resolved ? resolveSchema(spec, resolved) : undefined
ResolveTarget(doc, resolved, d) ==
  IF IsThrow(resolved) THEN resolved
  ELSE IF Truthy(resolved) THEN resolveSchema(doc, resolved, d + 1)
  ELSE Undefined

----------------------------------------------------------------------------
(* Writes *)

\* the key whose assignment reaches the setter Object.prototype defines
ProtoSetterKey == "__proto__"

\* the assignment o[k] = v on an object carried by value: an existing key keeps
\* its place, a new index key goes among the index keys in ascending order,
\* any other new key goes last; the assignment of "__proto__" to an object
\* without such an own property runs the inherited setter, which replaces the
\* prototype (or does nothing) and creates no own property
SetProp(o, k, v) ==
  LET ps == o[2]
      n == Len(ps)
  IN IF \E i \in 1..n : ps[i][1] = k
     THEN Obj([i \in 1..n |-> IF ps[i][1] = k THEN <<k, v>> ELSE ps[i]])
     ELSE IF k = ProtoSetterKey THEN o
     ELSE LET before ==
                IF KeyIndex(k) = 0 THEN n
                ELSE Cardinality({i \in 1..n : KeyIndex(ps[i][1]) # 0
                                               /\ KeyIndex(ps[i][1]) < KeyIndex(k)})
          IN Obj(SubSeq(ps, 1, before) \o <<<<k, v>>>> \o SubSeq(ps, before + 1, n))

RECURSIVE SetProps(_, _)
\* o[k] = v for every <<k, v>> of es, in order
SetProps(o, es) ==
  IF es = <<>> THEN o ELSE SetProps(SetProp(o, Head(es)[1], Head(es)[2]), Tail(es))

RECURSIVE StoreAt(_, _, _)
\* the document after the value stored at path is replaced by val
StoreAt(doc, path, val) ==
  IF path = <<>> THEN val
  ELSE LET k == Head(path)
           es == Entries(doc)
           sub == [i \in 1..Len(es) |->
                     IF es[i][1] = k THEN StoreAt(es[i][2], Tail(path), val) ELSE es[i][2]]
       IN IF Tag(doc) = "arr" THEN Arr(sub)
          ELSE Obj([i \in 1..Len(es) |-> <<es[i][1], sub[i]>>])

\* a result: the value returned (or the error thrown) and the document afterwards
Ret(v, doc) == [v |-> v, doc |-> doc]

\* the own enumerable properties of a value in hand, values as a read yields them
EntriesOf(doc, v) ==
  IF Tag(v) = "ptr"
  THEN LET es == Entries(At(doc, v[2]))
       IN [i \in 1..Len(es) |-> <<es[i][1], Load(doc, v[2] \o <<es[i][1]>>)>>]
  ELSE Entries(v)

\* Object.assign(target, source): writes into the object target refers to
ObjectAssign(doc, target, source) ==
  IF Tag(target) = "ptr"
  THEN LET old == At(doc, target[2])
           new == SetProps(IF Tag(old) = "obj" THEN old ELSE Obj(Entries(old)),
                           EntriesOf(doc, source))
       IN Ret(target, StoreAt(doc, target[2], new))
  ELSE Ret(SetProps(target, EntriesOf(doc, source)), doc)

----------------------------------------------------------------------------
(* Example Synthesizer *)

\* AllOfMerge with the arguments of Object.assign exchanged: the mapping built
\* so far is written into the synthesized value
AllOfMergeIntoExample(doc, merged, example) ==
  IF Truthy(example) /\ TypeofObject(example)
  THEN ObjectAssign(doc, example, merged)
  ELSE Ret(merged, doc)

\* the body of the allOf loop after the branch is synthesized: a truthy result
\* of type object is merged into the mapping built so far
AllOfMerge(doc, merged, example) ==
  IF Truthy(example) /\ TypeofObject(example)
  THEN ObjectAssign(doc, merged, example)
  ELSE Ret(merged, doc)

\* the sample string of a string schema without enum
FormatSample(format) ==
  CASE format = Str(<<"date">>) -> Str(<<"2024-01-15">>)
    [] format = Str(<<"date-time">>) -> Str(<<"2024-01-15T10:30:00Z">>)
    [] format = Str(<<"email">>) -> Str(<<"user@example.com">>)
    [] format = Str(<<"uuid">>) -> Str(<<"550e8400-e29b-41d4-a716-446655440000">>)
    [] format = Str(<<"uri">>) -> Str(<<"https://example.com">>)
    [] OTHER -> Str(<<"string">>)

ScalarTypes ==
  {Str(<<"string">>), Str(<<"number">>), Str(<<"integer">>), Str(<<"boolean">>)}

\* Preset with the two tests in the other order
PresetDefaultFirst(example, default) == IF default # Undefined THEN default ELSE example

\* an explicit example comes first, a default second; Undefined when the node
\* has neither
Preset(example, default) == IF example # Undefined THEN example ELSE default

\* enum[0] of an enum in hand
FirstEnum(doc, enum) == Prop(doc, enum, "0")

\* ScalarExample with the format of a string tested before its enum
ScalarExampleFormatFirst(doc, type, enum, format) ==
  CASE type = Str(<<"string">>) ->
         IF FormatSample(format) # Str(<<"string">>) THEN FormatSample(format)
         ELSE IF Truthy(enum) THEN FirstEnum(doc, enum) ELSE Str(<<"string">>)
    [] type \in {Str(<<"number">>), Str(<<"integer">>)} ->
         IF Truthy(enum) THEN FirstEnum(doc, enum) ELSE Num(0)
    [] type = Str(<<"boolean">>) -> Bool(TRUE)

\* the cases string, number, integer and boolean
ScalarExample(doc, type, enum, format) ==
  CASE type = Str(<<"string">>) ->
         IF Truthy(enum) THEN FirstEnum(doc, enum) ELSE FormatSample(format)
    [] type \in {Str(<<"number">>), Str(<<"integer">>)} ->
         IF Truthy(enum) THEN FirstEnum(doc, enum) ELSE Num(0)
    [] type = Str(<<"boolean">>) -> Bool(TRUE)

\* the assignment obj[key] = value of the object case
AssignProperty(obj, key, value) == SetProp(obj, key, value)

\* the array case: the item's example alone in a sequence, when it is truthy
WrapItem(itemExample) == IF Truthy(itemExample) THEN Arr(<<itemExample>>) ELSE Arr(<<>>)

RECURSIVE generateExampleFromSchema(_, _, _)
RECURSIVE GenResolved(_, _, _)
RECURSIVE GenPreset(_, _, _, _)
RECURSIVE GenByType(_, _, _, _)
RECURSIVE GenArray(_)
RECURSIVE GenObject(_, _, _)
RECURSIVE GenProperties(_, _, _, _)
RECURSIVE GenProperty(_, _, _, _)
RECURSIVE GenOneOf(_, _, _, _)
RECURSIVE GenAnyOf(_, _, _, _)
RECURSIVE GenAllOfOf(_, _, _)
RECURSIVE GenAllOf(_, _, _, _, _)
RECURSIVE GenBranch(_, _, _, _, _)
RECURSIVE GenMerged(_, _, _, _)

\* generateExampleFromSchema at call depth d
generateExampleFromSchema(doc, schema, d) ==
  IF d > StackLimit THEN Ret(Throw("RangeError"), doc)
  ELSE IF ~Truthy(schema) THEN Ret(Null, doc)
  ELSE GenResolved(doc, resolveSchema(doc, schema, d + 1), d)

\* after resolveSchema: null for no node, else the example or the default
GenResolved(doc, resolved, d) ==
  IF IsThrow(resolved) THEN Ret(resolved, doc)
  ELSE IF ~Truthy(resolved) THEN Ret(Null, doc)
  ELSE GenPreset(doc, resolved,
                 Preset(Prop(doc, resolved, "example"), Prop(doc, resolved, "default")), d)

\* after the tests of example and default: the switch on resolved.type
GenPreset(doc, resolved, preset, d) ==
  IF preset # Undefined THEN Ret(preset, doc)
  ELSE GenByType(doc, resolved, Prop(doc, resolved, "type"), d)

\* switch (resolved.type)
GenByType(doc, resolved, type, d) ==
  CASE type \in ScalarTypes ->
         Ret(ScalarExample(doc, type, Prop(doc, resolved, "enum"),
                           Prop(doc, resolved, "format")), doc)
    [] type = Str(<<"array">>) ->
         GenArray(generateExampleFromSchema(doc, Prop(doc, resolved, "items"), d + 1))
    [] type = Str(<<"object">>) -> GenObject(doc, Prop(doc, resolved, "properties"), d)
    [] OTHER -> GenOneOf(doc, resolved, OptProp(doc, Prop(doc, resolved, "oneOf"), "0"), d)

\* case 'array', r being what the synthesis of the items returned
GenArray(r) == IF IsThrow(r.v) THEN r ELSE Ret(WrapItem(r.v), r.doc)

\* case 'object'
GenObject(doc, properties, d) ==
  IF Truthy(properties)
  THEN GenProperties(doc, EntriesOf(doc, properties), Obj(<<>>), d)
  ELSE Ret(Obj(<<>>), doc)

\* the loop over Object.entries(resolved.properties)
GenProperties(doc, entries, obj, d) ==
  IF entries = <<>> THEN Ret(obj, doc)
  ELSE GenProperty(generateExampleFromSchema(doc, Head(entries)[2], d + 1), entries, obj, d)

\* obj[key] = r.v, r being what the synthesis of the first entry's schema returned
GenProperty(r, entries, obj, d) ==
  IF IsThrow(r.v) THEN r
  ELSE GenProperties(r.doc, Tail(entries), AssignProperty(obj, Head(entries)[1], r.v), d)

\* GenOneOf with anyOf tried before oneOf
GenAnyOfFirst(doc, resolved, oneOf0, d) ==
  IF Truthy(OptProp(doc, Prop(doc, resolved, "anyOf"), "0"))
  THEN generateExampleFromSchema(doc, OptProp(doc, Prop(doc, resolved, "anyOf"), "0"), d + 1)
  ELSE IF Truthy(oneOf0) THEN generateExampleFromSchema(doc, oneOf0, d + 1)
  ELSE GenAllOfOf(doc, Prop(doc, resolved, "allOf"), d)

\* default: if (resolved.oneOf?.[0])
GenOneOf(doc, resolved, oneOf0, d) ==
  IF Truthy(oneOf0) THEN generateExampleFromSchema(doc, oneOf0, d + 1)
  ELSE GenAnyOf(doc, resolved, OptProp(doc, Prop(doc, resolved, "anyOf"), "0"), d)

\* default: if (resolved.anyOf?.[0])
GenAnyOf(doc, resolved, anyOf0, d) ==
  IF Truthy(anyOf0) THEN generateExampleFromSchema(doc, anyOf0, d + 1)
  ELSE GenAllOfOf(doc, Prop(doc, resolved, "allOf"), d)

\* default: if (resolved.allOf); forEach exists on arrays alone
GenAllOfOf(doc, allOf, d) ==
  IF ~Truthy(allOf) THEN Ret(Null, doc)
  ELSE IF Tag(Target(doc, allOf)) = "arr" THEN GenAllOf(doc, allOf, 1, Obj(<<>>), d)
  ELSE Ret(Throw("TypeError"), doc)

\* the loop resolved.allOf.forEach over the branches i..n
GenAllOf(doc, allOf, i, merged, d) ==
  IF i > Len(At(doc, allOf[2])[2]) THEN Ret(merged, doc)
  ELSE GenBranch(generateExampleFromSchema(doc, Prop(doc, allOf, IndexKeys[i]), d + 1),
                 allOf, i, merged, d)

\* the body of the loop, r being what the synthesis of branch i returned
GenBranch(r, allOf, i, merged, d) ==
  IF IsThrow(r.v) THEN r ELSE GenMerged(AllOfMerge(r.doc, merged, r.v), allOf, i, d)

\* the loop goes on with the mapping and the document the merge left
GenMerged(m, allOf, i, d) == GenAllOf(m.doc, allOf, i + 1, m.v, d)

----------------------------------------------------------------------------
(* Endpoint Extractor and Tag Grouper *)

HTTP_METHODS == <<"get", "post", "put", "patch", "delete", "options", "head">>

\* the symbols that are a character outside [a-zA-Z0-9]; every other symbol
\* is a run of letters and digits
NonAlphanumeric ==
  {"/", "-", "_", ".", "{", "}", "#", "?", "&", "=", ":", " ", "%", ","}

\* the symbols that spell a path template
Spelling(path) ==
  CASE path = "/a" -> <<"/", "a">>
    [] path = "/b" -> <<"/", "b">>
    [] path = "/pets/{petId}" -> <<"/", "pets", "/", "{", "petId", "}">>
    [] path = "/a-b" -> <<"/", "a", "-", "b">>
    [] path = "/a/b" -> <<"/", "a", "/", "b">>
    [] path = "/pets" -> <<"/", "pets">>
    [] path = "/orders" -> <<"/", "orders">>
    [] OTHER -> <<path>>

\* the replacement without the g flag: only the first match is replaced
ReplaceFirstNonAlphanumeric(s) ==
  [i \in 1..Len(s) |->
     IF s[i] \in NonAlphanumeric /\ \A j \in 1..(i - 1) : s[j] \notin NonAlphanumeric
     THEN "-" ELSE s[i]]

\* the replacement of every run of matches (/[^a-zA-Z0-9]+/g) by one hyphen
ReplaceNonAlphanumericRuns(s) ==
  LET kept == {i \in 1..Len(s) : s[i] \notin NonAlphanumeric
                                  \/ i = 1 \/ s[i - 1] \notin NonAlphanumeric}
      nth[n \in 0..Len(s)] ==
        IF n = 0 THEN 0 ELSE CHOOSE i \in kept : i > nth[n - 1] /\ \A j \in kept : j > nth[n - 1] => i <= j
  IN [n \in 1..Cardinality(kept) |-> IF s[nth[n]] \in NonAlphanumeric THEN "-" ELSE s[nth[n]]]

\* s.replace(/[^a-zA-Z0-9]/g, '-')
ReplaceNonAlphanumeric(s) ==
  [i \in 1..Len(s) |-> IF s[i] \in NonAlphanumeric THEN "-" ELSE s[i]]

\* the entry extractEndpoints pushes for an operation
Endpoint(doc, path, pathItem, method, operation) ==
  Obj(<<<<"id", Str(ReplaceNonAlphanumeric(<<method, "-">> \o Spelling(path)))>>,
        <<"path", Str(Spelling(path))>>,
        <<"method", Str(<<method>>)>>,
        <<"operation", operation>>,
        <<"pathParameters", Prop(doc, pathItem, "parameters")>>>>)

\* PushOperation without the test: an entry for every method
PushAlways(doc, path, pathItem, method, operation, endpoints) ==
  Append(endpoints, Endpoint(doc, path, pathItem, method, operation))

\* if (operation) endpoints.push({...})
PushOperation(doc, path, pathItem, method, operation, endpoints) ==
  IF Truthy(operation)
  THEN Append(endpoints, Endpoint(doc, path, pathItem, method, operation))
  ELSE endpoints

RECURSIVE ExtractMethods(_, _, _, _, _)
\* the inner loop of extractEndpoints over the methods i.. of one path item
ExtractMethods(doc, path, pathItem, i, endpoints) ==
  IF i > Len(HTTP_METHODS) THEN endpoints
  ELSE ExtractMethods(doc, path, pathItem, i + 1,
         PushOperation(doc, path, pathItem, HTTP_METHODS[i],
                       Prop(doc, pathItem, HTTP_METHODS[i]), endpoints))

RECURSIVE ExtractPaths(_, _, _)
\* the outer loop of extractEndpoints over the entries of spec.paths
ExtractPaths(doc, entries, endpoints) ==
  IF entries = <<>> THEN endpoints
  ELSE ExtractPaths(doc, Tail(entries),
         ExtractMethods(doc, Head(entries)[1], Head(entries)[2], 1, endpoints))

extractEndpoints(doc) ==
  Ret(Arr(ExtractPaths(doc, EntriesOf(doc, Prop(doc, Ptr(<<>>), "paths")), <<>>)), doc)

\* map.has(key) and map.get(key) on a Map held as its entries in insertion order
MapHas(map, key) == \E i \in 1..Len(map) : map[i][1] = key
MapGet(map, key) ==
  IF MapHas(map, key) THEN map[CHOOSE i \in 1..Len(map) : map[i][1] = key][2]
  ELSE Undefined
\* map.set(key, value): a known key keeps its place
MapSet(map, key, value) ==
  IF MapHas(map, key)
  THEN [i \in 1..Len(map) |-> IF map[i][1] = key THEN <<key, value>> ELSE map[i]]
  ELSE Append(map, <<key, value>>)

\* the elements of an array in hand, as a read of each index yields them
Elements(doc, v) ==
  LET es == EntriesOf(doc, v) IN [i \in 1..Len(es) |-> es[i][2]]

\* tag.description || ''
DescriptionOf(description) == IF Truthy(description) THEN description ELSE Str(<<>>)

RECURSIVE TagDescriptions(_, _, _)
\* spec.tags?.forEach: name -> description || ''
TagDescriptions(doc, tags, map) ==
  IF tags = <<>> THEN map
  ELSE TagDescriptions(doc, Tail(tags),
         MapSet(map, Prop(doc, Head(tags), "name"),
                DescriptionOf(Prop(doc, Head(tags), "description"))))

\* the Parsed Tag created when a tag name is seen first
NewTag(tagName, tagDescriptions) ==
  Obj(<<<<"name", tagName>>,
        <<"description", MapGet(tagDescriptions, tagName)>>,
        <<"endpoints", Arr(<<>>)>>>>)

\* PushEndpoint with unshift in the place of push
UnshiftEndpoint(tag, endpoint) ==
  SetProp(tag, "endpoints", Arr(<<endpoint>> \o GetOwn(tag, "endpoints")[2]))

\* tag.endpoints.push(endpoint)
PushEndpoint(tag, endpoint) ==
  SetProp(tag, "endpoints", Arr(Append(GetOwn(tag, "endpoints")[2], endpoint)))

\* if (!tagMap.has(tagName)) tagMap.set(tagName, {...})
WithTag(tagMap, tagName, tagDescriptions) ==
  IF MapHas(tagMap, tagName) THEN tagMap
  ELSE MapSet(tagMap, tagName, NewTag(tagName, tagDescriptions))

\* tagMap.get(tagName).endpoints.push(endpoint)
PushInto(tagMap, tagName, endpoint) ==
  MapSet(tagMap, tagName, PushEndpoint(MapGet(tagMap, tagName), endpoint))

RECURSIVE GroupTags(_, _, _, _)
\* the inner loop of groupEndpointsByTag over the tag names of one endpoint
GroupTags(tagNames, endpoint, tagDescriptions, tagMap) ==
  IF tagNames = <<>> THEN tagMap
  ELSE GroupTags(Tail(tagNames), endpoint, tagDescriptions,
                 PushInto(WithTag(tagMap, Head(tagNames), tagDescriptions),
                          Head(tagNames), endpoint))

\* endpoint.operation.tags || ['Untagged']
TagNames(doc, declared) ==
  IF Truthy(declared) THEN Elements(doc, declared) ELSE <<Str(<<"Untagged">>)>>

RECURSIVE GroupEndpoints(_, _, _, _)
\* the outer loop of groupEndpointsByTag over the endpoints
GroupEndpoints(doc, endpoints, tagDescriptions, tagMap) ==
  IF endpoints = <<>> THEN tagMap
  ELSE GroupEndpoints(doc, Tail(endpoints), tagDescriptions,
         GroupTags(TagNames(doc, Prop(doc, Prop(doc, Head(endpoints), "operation"), "tags")),
                   Head(endpoints), tagDescriptions, tagMap))

\* spec.tags?.forEach(...)
DescriptionsOf(doc, tags) ==
  IF Tag(tags) \in {"undefined", "null"} THEN <<>>
  ELSE TagDescriptions(doc, Elements(doc, tags), <<>>)

\* Array.from(tagMap.values())
Values(tagMap) == Arr([i \in 1..Len(tagMap) |-> tagMap[i][2]])

\* groupEndpointsByTag: the Parsed Tags, the document and the endpoints afterwards
groupEndpointsByTag(doc, endpoints) ==
  [v |-> Values(GroupEndpoints(doc, endpoints[2],
                               DescriptionsOf(doc, Prop(doc, Ptr(<<>>), "tags")), <<>>)),
   doc |-> doc, endpoints |-> endpoints]

----------------------------------------------------------------------------
(* Code Generators *)

\* a || b
Or(a, b) == IF Truthy(a) THEN a ELSE b

RECURSIVE ToStr(_, _)
RECURSIVE JoinWith(_, _)
\* parts.join(sep)
JoinWith(parts, sep) ==
  IF parts = <<>> THEN <<>>
  ELSE IF Len(parts) = 1 THEN parts[1]
  ELSE parts[1] \o <<sep>> \o JoinWith(Tail(parts), sep)

\* String(v), the symbols of the text
ToStr(doc, v) ==
  CASE Tag(v) = "str" -> v[2]
    [] Tag(v) = "num" -> <<ToString(v[2])>>
    [] Tag(v) = "bool" -> IF v[2] THEN <<"true">> ELSE <<"false">>
    [] Tag(v) = "undefined" -> <<"undefined">>
    [] Tag(v) = "null" -> <<"null">>
    [] Tag(Target(doc, v)) = "arr" ->
         LET es == Elements(doc, v)
         IN JoinWith([i \in 1..Len(es) |->
                        IF Tag(es[i]) \in {"undefined", "null"} THEN <<>>
                        ELSE ToStr(doc, es[i])], ",")
    [] OTHER -> <<"[object Object]">>

RECURSIVE JsonOf(_, _)
\* the value JSON.stringify writes for v: a property without a value is left
\* out, an element without a value becomes null
JsonOf(doc, v) ==
  LET t == Target(doc, v)
      unwritten(x) == Tag(x) \in {"undefined", "fn"}
  IN CASE Tag(t) = "obj" ->
            LET kept == SelectSeq(t[2], LAMBDA e : ~unwritten(e[2]))
            IN Obj([i \in 1..Len(kept) |-> <<kept[i][1], JsonOf(doc, kept[i][2])>>])
       [] Tag(t) = "arr" ->
            Arr([i \in 1..Len(t[2]) |->
                   IF unwritten(t[2][i]) THEN Null ELSE JsonOf(doc, t[2][i])])
       [] OTHER -> t

\* the text JSON.stringify(v, null, n), held as the value it writes
Stringify(doc, v) == <<"json", JsonOf(doc, v)>>

\* the rest of getRequestBody for a media type object in hand
BodyOfMedia(doc, jsonContent) ==
  IF Truthy(OptProp(doc, jsonContent, "example")) THEN Ret(OptProp(doc, jsonContent, "example"), doc)
  ELSE IF Truthy(OptProp(doc, jsonContent, "schema"))
       THEN generateExampleFromSchema(doc, OptProp(doc, jsonContent, "schema"), 1)
  ELSE Ret(Null, doc)

\* the rest of getRequestBody for the content of the request body in hand
BodyOfContent(doc, content) ==
  IF ~Truthy(content) THEN Ret(Null, doc)
  ELSE BodyOfMedia(doc, Prop(doc, content, "application/json"))

getRequestBody(doc, endpoint) ==
  BodyOfContent(doc, OptProp(doc, Prop(doc, Prop(doc, endpoint, "operation"), "requestBody"),
                             "content"))

\* where pattern first occurs in s, 0 when nowhere
IndexOf(s, pattern) ==
  LET at == {i \in 1..(Len(s) - Len(pattern) + 1) :
               SubSeq(s, i, i + Len(pattern) - 1) = pattern}
  IN IF at = {} THEN 0 ELSE CHOOSE i \in at : \A j \in at : i <= j

\* s.replace(pattern, replacement) for a string pattern: the first occurrence
ReplaceFirst(s, pattern, replacement) ==
  LET i == IndexOf(s, pattern)
  IN IF i = 0 THEN s
     ELSE SubSeq(s, 1, i - 1) \o replacement \o SubSeq(s, i + Len(pattern), Len(s))

\* params.filter(p => p.in === where)
ParamsIn(doc, params, where) ==
  SelectSeq(params, LAMBDA p : Prop(doc, p, "in") = Str(<<where>>))

\* param.example || param.schema?.example || fallback
ParamValue(doc, param, fallback) ==
  Or(Prop(doc, param, "example"),
     Or(OptProp(doc, Prop(doc, param, "schema"), "example"), fallback))

\* the placeholder `{${param.name}}`
Placeholder(doc, param) == <<"{">> \o ToStr(doc, Prop(doc, param, "name")) \o <<"}">>

\* the body of the loop of buildUrl: the placeholder of param gives way to its value
ReplaceParam(doc, url, param) ==
  ReplaceFirst(url, Placeholder(doc, param),
               ToStr(doc, ParamValue(doc, param, Str(Placeholder(doc, param)))))

RECURSIVE ReplacePathParams(_, _, _)
\* the loop of buildUrl over the path parameters
ReplacePathParams(doc, url, pathParams) ==
  IF pathParams = <<>> THEN url
  ELSE ReplacePathParams(doc, ReplaceParam(doc, url, Head(pathParams)), Tail(pathParams))

buildUrl(doc, baseUrl, path, params) ==
  ReplacePathParams(doc, ToStr(doc, baseUrl) \o ToStr(doc, path), ParamsIn(doc, params, "path"))

\* the percent code of a symbol encodeURIComponent does not keep
PercentCode(c) ==
  CASE c = "/" -> "%2F" [] c = "{" -> "%7B" [] c = "}" -> "%7D" [] c = "#" -> "%23"
    [] c = "?" -> "%3F" [] c = "&" -> "%26" [] c = "=" -> "%3D" [] c = ":" -> "%3A"
    [] c = " " -> "%20" [] c = "%" -> "%25" [] c = "," -> "%2C"
    [] OTHER -> c

\* encodeURIComponent(s)
encodeURIComponent(s) == [i \in 1..Len(s) |-> PercentCode(s[i])]

\* name=value of a query parameter
QueryPair(doc, p) ==
  ToStr(doc, Prop(doc, p, "name")) \o <<"=">>
  \o encodeURIComponent(ToStr(doc, ParamValue(doc, p, Str(<<"value">>))))

\* the rest of buildQueryString for the query parameters in hand
QueryOf(doc, queryParams) ==
  IF Len(queryParams) = 0 THEN <<>>
  ELSE <<"?">> \o JoinWith([i \in 1..Len(queryParams) |-> QueryPair(doc, queryParams[i])], "&")

buildQueryString(doc, params) == QueryOf(doc, ParamsIn(doc, params, "query"))

\* [...(endpoint.pathParameters || []), ...(endpoint.operation.parameters || [])]
AllParams(doc, endpoint) ==
  Elements(doc, Or(Prop(doc, endpoint, "pathParameters"), Arr(<<>>)))
  \o Elements(doc, Or(Prop(doc, Prop(doc, endpoint, "operation"), "parameters"), Arr(<<>>)))

\* WithAuthorization without the test of the token
WithAuthorizationAlways(doc, headers, authToken) ==
  SetProp(headers, "Authorization", Str(<<"Bearer", " ">> \o ToStr(doc, authToken)))

\* the headers every generator renders
WithAuthorization(doc, headers, authToken) ==
  IF Truthy(authToken)
  THEN SetProp(headers, "Authorization", Str(<<"Bearer", " ">> \o ToStr(doc, authToken)))
  ELSE headers

RequestHeaders(doc, options) ==
  WithAuthorization(doc,
    SetProps(Obj(<<<<"Content-Type", Str(<<"application/json">>)>>>>),
             EntriesOf(doc, Prop(doc, options, "headers"))),
    Prop(doc, options, "authToken"))

toUpperCase(method) ==
  CASE method = "get" -> "GET" [] method = "post" -> "POST" [] method = "put" -> "PUT"
    [] method = "patch" -> "PATCH" [] method = "delete" -> "DELETE"
    [] method = "options" -> "OPTIONS" [] method = "head" -> "HEAD"
    [] OTHER -> method

toLowerCase(method) ==
  CASE method = "GET" -> "get" [] method = "POST" -> "post" [] method = "PUT" -> "put"
    [] method = "PATCH" -> "patch" [] method = "DELETE" -> "delete"
    [] method = "OPTIONS" -> "options" [] method = "HEAD" -> "head"
    [] OTHER -> method

\* the snippet of a generator, held as the parts its text is made of: the
\* language, the method as written, the URL, the headers in order and the
\* payload text, Undefined when the snippet sends no body
Snippet(language, method, url, headers, payload) ==
  <<"code", language, method, url, headers, payload>>

\* buildUrl(options.baseUrl, endpoint.path, allParams) + buildQueryString(allParams)
RequestUrl(doc, baseUrl, path, allParams) ==
  buildUrl(doc, baseUrl, path, allParams) \o buildQueryString(doc, allParams)

\* the rest of a generator once the method, the URL and the body are in hand;
\* upper tells whether the method is tested against POST, PUT, PATCH or
\* against post, put, patch
RenderRequest(language, upper, method, url, body, options) ==
  IF IsThrow(body.v) THEN body
  ELSE Ret(Snippet(language, method, url, RequestHeaders(body.doc, options)[2],
                   IF Truthy(body.v)
                      /\ method \in (IF upper THEN {"POST", "PUT", "PATCH"}
                                     ELSE {"post", "put", "patch"})
                   THEN Stringify(body.doc, body.v)
                   ELSE Undefined),
           body.doc)

\* the method as a generator writes it
MethodOf(upper, name) == IF upper THEN toUpperCase(name) ELSE toLowerCase(name)

\* what the four generators share; upper tells whether the method is written
\* in upper case
GenerateRequest(language, upper, doc, endpoint, options) ==
  RenderRequest(language, upper,
                MethodOf(upper, Prop(doc, endpoint, "method")[2][1]),
                RequestUrl(doc, Prop(doc, options, "baseUrl"), Prop(doc, endpoint, "path"),
                           AllParams(doc, endpoint)),
                getRequestBody(doc, endpoint), options)

generateCurl(doc, endpoint, options) == GenerateRequest("curl", TRUE, doc, endpoint, options)
generateJavaScript(doc, endpoint, options) ==
  GenerateRequest("javascript", TRUE, doc, endpoint, options)
generatePython(doc, endpoint, options) ==
  GenerateRequest("python", FALSE, doc, endpoint, options)
generateGo(doc, endpoint, options) == GenerateRequest("go", TRUE, doc, endpoint, options)

generateCode(language, doc, endpoint, options) ==
  CASE language = "curl" -> generateCurl(doc, endpoint, options)
    [] language = "javascript" -> generateJavaScript(doc, endpoint, options)
    [] language = "python" -> generatePython(doc, endpoint, options)
    [] language = "go" -> generateGo(doc, endpoint, options)
    [] OTHER -> Ret(Str(<<>>), doc)

----------------------------------------------------------------------------
(* The documents and schema nodes the checks range over *)

SchemaNames == <<"A", "B", "C", "D">>
Names == {SchemaNames[i] : i \in 1..NumSchemas}
PropNames == <<"a", "b", "c", "d">>

\* an object with the given fields, an Undefined field being left out
Fields(pairs) == Obj(SelectSeq(pairs, LAMBDA p : p[2] # Undefined))

RefTo(name) == Str(<<"#", "/", "components", "/", "schemas", "/", name>>)
RefNode(ref) == Obj(<<<<"$ref", ref>>>>)

\* references the document cannot follow: a missing name, a missing section,
\* another document, the empty pointer
BrokenRefs ==
  {RefTo("Missing"),
   Str(<<"#", "/", "definitions", "/", "A">>),
   Str(<<"other.json", "#", "/", "components", "/", "schemas", "/", "A">>),
   Str(<<"#", "/">>)}

\* $ref values that are no usable string
MalformedRefs == {Num(42), Bool(TRUE), Str(<<>>)}

\* a reference to a name only the prototype defines
InheritedRef == Str(<<"#", "/", "components", "/", "schemas", "/", "constructor">>)

Types ==
  {Undefined, Str(<<"string">>), Str(<<"number">>), Str(<<"integer">>),
   Str(<<"boolean">>), Str(<<"array">>), Str(<<"object">>), Str(<<"file">>)}
Formats ==
  {Undefined, Str(<<"date">>), Str(<<"date-time">>), Str(<<"email">>),
   Str(<<"uuid">>), Str(<<"uri">>), Str(<<"password">>)}
Enums == {Undefined, Arr(<<Str(<<"a">>), Str(<<"b">>)>>), Arr(<<Num(5), Num(10)>>), Arr(<<>>)}
Examples == {Undefined, Null, Obj(<<<<"k", Num(1)>>>>)}
Defaults == {Undefined, Num(3), Str(<<>>)}

\* schema nodes without children: every combination of type, enum, example and
\* default, and every format on string nodes
ScalarNodes ==
  {Fields(<<<<"type", t>>, <<"enum", e>>, <<"example", x>>, <<"default", dflt>>>>) :
     t \in Types, e \in Enums, x \in Examples, dflt \in Defaults}
  \cup
  {Fields(<<<<"type", Str(<<"string">>)>>, <<"format", f>>, <<"enum", e>>,
            <<"example", x>>, <<"default", dflt>>>>) :
     f \in Formats, e \in {Undefined, Arr(<<Str(<<"a">>), Str(<<"b">>)>>)},
     x \in {Undefined, Null}, dflt \in {Undefined, Str(<<>>)}}

\* the schemas used as items, property schemas and composition branches
ChildNodes ==
  {RefNode(RefTo(n)) : n \in Names}
  \cup {RefNode(RefTo("Missing")),
        Fields(<<<<"type", Str(<<"string">>)>>>>),
        Fields(<<<<"type", Str(<<"integer">>)>>>>),
        Fields(<<<<"type", Str(<<"boolean">>)>>>>),
        Fields(<<<<"type", Str(<<"integer">>)>>, <<"enum", Arr(<<Num(5), Num(10)>>)>>>>),
        Fields(<<<<"type", Str(<<"string">>)>>, <<"enum", Arr(<<Str(<<>>)>>)>>>>),
        Fields(<<<<"type", Str(<<"object">>)>>>>),
        Fields(<<<<"example", Bool(FALSE)>>>>),
        Fields(<<<<"type", Str(<<"object">>)>>, <<"example", Obj(<<<<"k", Num(1)>>>>)>>>>)}

\* the schemas used as property schemas and as branches beside another branch
FewChildNodes ==
  {RefNode(RefTo("A")), RefNode(RefTo("Missing")),
   Fields(<<<<"type", Str(<<"boolean">>)>>>>)}

\* the sequences of at most n children, each from a set
RECURSIVE SeqsUpTo(_, _)
SeqsUpTo(S, n) ==
  IF n = 0 THEN {<<>>}
  ELSE LET shorter == SeqsUpTo(S, n - 1)
       IN shorter \cup {Append(q, c) : q \in {r \in shorter : Len(r) = n - 1}, c \in S}

\* the property map whose i-th property, named PropNames[i], has schema q[i]
PropertyMap(q) == Obj([i \in 1..Len(q) |-> <<PropNames[i], q[i]>>])

ArrayNodes ==
  {Fields(<<<<"type", Str(<<"array">>)>>, <<"items", c>>>>) : c \in ChildNodes \cup {Undefined}}

\* object nodes: every property map over the few children, and one whose
\* first property is named as JSON allows and the prototype chain reserves
ObjectNodes ==
  {Fields(<<<<"type", Str(<<"object">>)>>, <<"properties", PropertyMap(q)>>>>) :
     q \in SeqsUpTo(FewChildNodes, MaxProps)}
  \cup {Fields(<<<<"type", Str(<<"object">>)>>,
                 <<"properties", Obj(<<<<ProtoSetterKey, Fields(<<<<"type", Str(<<"string">>)>>>>)>>,
                                       <<"a", Fields(<<<<"type", Str(<<"boolean">>)>>>>)>>>>)>>>>)}

CompositionNodes ==
  UNION {{Fields(<<<<k, Arr(q)>>>>) : q \in SeqsUpTo(FewChildNodes, MaxProps)} :
           k \in {"oneOf", "anyOf", "allOf"}}
  \cup {Fields(<<<<"oneOf", Arr(<<RefNode(RefTo("Missing"))>>)>>,
                 <<"anyOf", Arr(<<Fields(<<<<"type", Str(<<"boolean">>)>>>>)>>)>>,
                 <<"allOf", Arr(<<Fields(<<<<"type", Str(<<"object">>)>>>>)>>)>>>>),
        Fields(<<<<"allOf", Obj(<<>>)>>>>)}

ReferenceNodes ==
  {RefNode(r) : r \in {RefTo(n) : n \in Names} \cup BrokenRefs \cup MalformedRefs
                      \cup {InheritedRef}}

\* the links of a chain of references: a reference to a named schema, a
\* reference to no schema, or a node that is no reference
LinkNodes ==
  {RefNode(RefTo(n)) : n \in Names}
  \cup {RefNode(RefTo("Missing")), Fields(<<<<"type", Str(<<"string">>)>>>>)}

\* what the schemas after the first are, in a document whose first schema
\* has children: plain strings, or objects that lead back to the first schema
RestNodes ==
  {Fields(<<<<"type", Str(<<"string">>)>>>>),
   Fields(<<<<"type", Str(<<"object">>)>>,
            <<"properties", PropertyMap(<<RefNode(RefTo("A"))>>)>>>>)}

\* the request body schema of the one operation: a reference to the first schema
BodyPath ==
  <<"paths", "/a", "post", "requestBody", "content", "application/json", "schema">>

PathsSection ==
  Obj(<<<<"/a", Obj(<<<<"post", Obj(<<
    <<"requestBody", Obj(<<<<"content", Obj(<<<<"application/json", Obj(<<
       <<"schema", RefNode(RefTo("A"))>>>>)>>>>)>>>>)>>,
    <<"responses", Obj(<<>>)>>>>)>>>>)>>>>)

\* the document with the given schemas (a function of the names), or with no
\* components section when there is none
Document(components) ==
  Fields(<<<<"openapi", Str(<<"3.0.0">>)>>,
           <<"paths", PathsSection>>,
           <<"components", components>>>>)

\* the components section that binds the i-th name to nodes[i]
SchemasSection(nodes) ==
  Obj(<<<<"schemas", Obj([i \in 1..NumSchemas |-> <<SchemaNames[i], nodes[i]>>])>>>>)

\* documents whose first schema is the given node, the others all being rest
WithFirst(first, rest) ==
  Document(SchemasSection([i \in 1..NumSchemas |-> IF i = 1 THEN first ELSE rest]))

\* documents whose first schema is a childless node
ScalarDocs == {WithFirst(n, Fields(<<<<"type", Str(<<"string">>)>>>>)) : n \in ScalarNodes}

\* documents whose first schema is a reference of any kind
ReferenceDocs ==
  {WithFirst(n, Fields(<<<<"type", Str(<<"string">>)>>>>)) : n \in ReferenceNodes}

\* documents whose schemas are links: chains and cycles of references
ChainDocs == {Document(SchemasSection(nodes)) : nodes \in [1..NumSchemas -> LinkNodes]}

\* documents whose first schema has children
CompositeDocs ==
  {WithFirst(n, rest) :
     n \in ArrayNodes \cup ObjectNodes \cup CompositionNodes, rest \in RestNodes}

\* nodes without a recognized type that combine the three compositions, each
\* missing, empty or with one branch
OrderNodes ==
  {Fields(<<<<"type", t>>, <<"oneOf", o>>, <<"anyOf", a>>, <<"allOf", l>>>>) :
     t \in {Undefined, Str(<<"file">>)},
     o \in {Undefined, Arr(<<>>), Arr(<<Fields(<<<<"type", Str(<<"integer">>)>>>>)>>)},
     a \in {Undefined, Arr(<<>>), Arr(<<Fields(<<<<"type", Str(<<"boolean">>)>>>>)>>)},
     l \in {Undefined, Arr(<<>>),
            Arr(<<Fields(<<<<"example", Obj(<<<<"k", Num(1)>>>>)>>>>)>>)}}

\* the branches of a merge: mappings that share a key, a sequence, a scalar
\* and a branch that synthesizes to null
MergeBranches ==
  {Fields(<<<<"type", Str(<<"object">>)>>, <<"example", Obj(<<<<"k", Num(1)>>>>)>>>>),
   Fields(<<<<"type", Str(<<"object">>)>>,
            <<"example", Obj(<<<<"j", Num(3)>>, <<"k", Num(2)>>>>)>>>>),
   Fields(<<<<"type", Str(<<"array">>)>>, <<"items", Fields(<<<<"type", Str(<<"string">>)>>>>)>>>>),
   Fields(<<<<"type", Str(<<"boolean">>)>>>>),
   RefNode(RefTo("Missing"))}

\* untyped nodes whose allOf has up to MaxProps branches
MergeNodes == {Fields(<<<<"allOf", Arr(q)>>>>) : q \in SeqsUpTo(MergeBranches, MaxProps)}

\* documents whose first schema is a composition
CompositionDocs ==
  {WithFirst(n, Fields(<<<<"type", Str(<<"string">>)>>>>)) : n \in OrderNodes \cup MergeNodes}

\* a parameter of an operation or of a path item
Parameter(name, in, example, schema) ==
  Fields(<<<<"name", Str(<<name>>)>>, <<"in", Str(<<in>>)>>,
           <<"example", example>>, <<"schema", schema>>>>)

\* the path-level parameter lists: none, or the path parameter with or
\* without a value of its own
PathParameterLists ==
  {Undefined,
   Arr(<<Parameter("petId", "path", Undefined, Fields(<<<<"type", Str(<<"string">>)>>>>))>>),
   Arr(<<Parameter("petId", "path", Num(7), Fields(<<<<"type", Str(<<"integer">>)>>>>))>>)}

\* the operation-level parameter lists: none, or query parameters whose value
\* is on the parameter, on its schema, or nowhere
QueryParameterLists ==
  {Undefined,
   Arr(<<Parameter("q", "query", Str(<<"a", "/", "b">>), Undefined),
         Parameter("limit", "query", Undefined,
                   Fields(<<<<"type", Str(<<"integer">>)>>, <<"example", Num(0)>>>>)),
         Parameter("X-Trace", "header", Str(<<"t">>), Undefined)>>)}

\* the tag lists of an operation: none, empty, one tag, two tags
TagLists ==
  {Undefined, Arr(<<>>), Arr(<<Str(<<"pets">>)>>), Arr(<<Str(<<"pets">>), Str(<<"store">>)>>)}

\* the request bodies of an operation: none, a literal example, a schema
RequestBodies ==
  {Undefined}
  \cup {Obj(<<<<"content", Obj(<<<<"application/json", media>>>>)>>>>) :
          media \in {Obj(<<<<"example", Obj(<<<<"name", Str(<<"Rex">>)>>>>)>>>>),
                     Obj(<<<<"schema", RefNode(RefTo("A"))>>>>)}}

Operation(tags, parameters, requestBody) ==
  Fields(<<<<"tags", tags>>, <<"parameters", parameters>>,
           <<"requestBody", requestBody>>, <<"responses", Obj(<<>>)>>>>)

\* the paths sections of the documents that vary in their operations: one
\* templated path with a read and a write operation, and a plain path
PathsSections ==
  {Obj(<<<<"/pets/{petId}",
           Fields(<<<<"parameters", pathParameters>>,
                    <<"get", Operation(tags, parameters, Undefined)>>,
                    <<"put", Operation(Arr(<<Str(<<"pets">>)>>), Undefined, requestBody)>>>>)>>,
         <<"/a-b", Obj(<<<<"delete", Operation(Undefined, Undefined, requestBody)>>>>)>>>>) :
     pathParameters \in PathParameterLists, parameters \in QueryParameterLists,
     tags \in TagLists, requestBody \in RequestBodies}

\* the tag sections of a document: none, a described tag, an undescribed tag
TagSections ==
  {Undefined,
   Arr(<<Obj(<<<<"name", Str(<<"pets">>)>>, <<"description", Str(<<"Pets">>)>>>>)>>),
   Arr(<<Obj(<<<<"name", Str(<<"store">>)>>>>)>>)}

\* the schemas of the documents that vary in their operations: the first is a
\* composition over a branch with a literal example
OperationSchemas ==
  SchemasSection([i \in 1..NumSchemas |->
    IF i = 1
    THEN Fields(<<<<"allOf", Arr(<<
           Fields(<<<<"type", Str(<<"object">>)>>,
                    <<"properties", PropertyMap(<<Fields(<<<<"type", Str(<<"boolean">>)>>>>)>>)>>>>),
           Fields(<<<<"type", Str(<<"object">>)>>,
                    <<"example", Obj(<<<<"k", Num(1)>>>>)>>>>)
         >>)>>>>)
    ELSE Fields(<<<<"type", Str(<<"string">>)>>>>)])

\* documents that vary in their paths, operations, parameters and tags
OperationDocs ==
  {Fields(<<<<"openapi", Str(<<"3.0.0">>)>>, <<"tags", tags>>, <<"paths", paths>>,
            <<"components", OperationSchemas>>>>) :
     tags \in TagSections, paths \in PathsSections}

\* the tag lists of the operations of the route documents: none, empty, one
\* tag, two tags, one tag twice
RouteTagLists ==
  TagLists \cup {Arr(<<Str(<<"store">>)>>), Arr(<<Str(<<"pets">>), Str(<<"pets">>)>>)}

\* the tag sections of the route documents: none, tags with and without
\* description one of which no operation carries, a tag with an empty description
RouteTagSections ==
  {Undefined,
   Arr(<<Obj(<<<<"name", Str(<<"pets">>)>>, <<"description", Str(<<"Pets">>)>>>>),
         Obj(<<<<"name", Str(<<"unused">>)>>, <<"description", Str(<<"Unused">>)>>>>),
         Obj(<<<<"name", Str(<<"store">>)>>>>)>>),
   Arr(<<Obj(<<<<"name", Str(<<"admin">>)>>, <<"description", Str(<<>>)>>>>)>>)}

\* a third path item: its operations are declared out of the canonical order,
\* next to an operation of a method the extractor does not know
NestedPath ==
  <<"/a/b", Obj(<<<<"trace", Operation(Undefined, Undefined, Undefined)>>,
                  <<"head", Operation(Arr(<<Str(<<"admin">>)>>), Undefined, Undefined)>>,
                  <<"patch", Operation(Undefined, Undefined, Undefined)>>>>)>>

\* the paths sections of the route documents: /a with post declared before
\* get, /b with get, and possibly the third path
RoutePaths ==
  {Obj(<<<<"/a", Obj(<<<<"summary", Str(<<"s">>)>>,
                       <<"post", Operation(Arr(<<Str(<<"store">>), Str(<<"pets">>)>>),
                                           Undefined, Undefined)>>,
                       <<"get", Operation(tagsA, Undefined, Undefined)>>>>)>>,
         <<"/b", Obj(<<<<"get", Operation(tagsB, Undefined, Undefined)>>>>)>>>> \o more) :
     tagsA \in TagLists,
     tagsB \in (RouteTagLists \ TagLists) \cup {Undefined},
     more \in {<<>>, <<NestedPath>>}}

\* documents that vary in their routes and tags
RouteDocs ==
  {Fields(<<<<"openapi", Str(<<"3.0.0">>)>>, <<"tags", tags>>, <<"paths", paths>>,
            <<"components", OperationSchemas>>>>) :
     tags \in RouteTagSections, paths \in RoutePaths}

\* path parameters whose example is the number 0 or whose schema has a default
ValuedPathParameters ==
  {Parameter("petId", "path", Num(0), Fields(<<<<"type", Str(<<"integer">>)>>>>)),
   Parameter("petId", "path", Undefined,
             Fields(<<<<"type", Str(<<"integer">>)>>, <<"default", Num(5)>>>>))}

\* query parameter lists: none, two parameters with an example, a parameter
\* without any value, a parameter whose schema has a default
ValuedQueryParameters ==
  {<<>>,
   <<Parameter("q", "query", Str(<<"a", "/", "b">>), Undefined),
     Parameter("limit", "query", Undefined,
               Fields(<<<<"type", Str(<<"integer">>)>>, <<"example", Num(10)>>>>))>>,
   <<Parameter("q", "query", Undefined, Fields(<<<<"type", Str(<<"string">>)>>>>))>>,
   <<Parameter("q", "query", Undefined,
               Fields(<<<<"type", Str(<<"integer">>)>>, <<"default", Num(3)>>>>))>>}

\* the paths sections of the parameter documents: the path parameter is
\* declared on the path item or on the operation
ParameterPaths ==
  {Obj(<<<<"/pets/{petId}",
           Fields(<<<<"parameters", IF shared THEN Arr(<<param>>) ELSE Undefined>>,
                    <<"get", Operation(Undefined,
                                       Arr((IF shared THEN <<>> ELSE <<param>>) \o query),
                                       Undefined)>>>>)>>>>) :
     shared \in BOOLEAN, param \in ValuedPathParameters, query \in ValuedQueryParameters}

\* documents that vary in the values of their parameters
ParameterDocs ==
  {Fields(<<<<"openapi", Str(<<"3.0.0">>)>>, <<"paths", paths>>,
            <<"components", OperationSchemas>>>>) : paths \in ParameterPaths}

\* the request bodies of the body documents: none, one without content, one
\* without application/json content, and application/json media with a falsy
\* literal example, a truthy one, a schema only, or neither
BodyMedia ==
  {Fields(<<<<"example", example>>, <<"schema", schema>>>>) :
     example \in {Undefined, Num(0), Bool(FALSE), Str(<<>>)},
     schema \in {Undefined, RefNode(RefTo("A")), Fields(<<<<"type", Str(<<"integer">>)>>>>)}}
  \cup {Obj(<<<<"example", Arr(<<Num(1)>>)>>, <<"schema", RefNode(RefTo("B"))>>>>)}

BodyRequests ==
  {Undefined, Obj(<<>>),
   Obj(<<<<"content", Obj(<<<<"text/plain", Obj(<<<<"example", Str(<<"t">>)>>>>)>>>>)>>>>)}
  \cup {Obj(<<<<"content", Obj(<<<<"application/json", media>>>>)>>>>) : media \in BodyMedia}

\* documents that vary in the request body of a write and of a read operation
BodyDocs ==
  {Fields(<<<<"openapi", Str(<<"3.0.0">>)>>,
            <<"paths", Obj(<<<<"/a", Obj(<<<<"patch", Operation(Undefined, Undefined, body)>>,
                                          <<"head", Operation(Undefined, Undefined, body)>>>>)>>>>)>>,
            <<"components", OperationSchemas>>>>) : body \in BodyRequests}

\* a document with the paths /a-b and /a/b, read alike
TwinDocs ==
  {Fields(<<<<"openapi", Str(<<"3.0.0">>)>>,
            <<"paths", Obj(<<<<"/a-b", Obj(<<<<"get", Operation(Undefined, Undefined, Undefined)>>>>)>>,
                             <<"/a/b", Obj(<<<<"get", Operation(Undefined, Undefined, Undefined)>>>>)>>>>)>>>>)}

Docs ==
  ScalarDocs \cup ReferenceDocs \cup ChainDocs \cup CompositeDocs \cup CompositionDocs
  \cup OperationDocs \cup RouteDocs \cup ParameterDocs \cup BodyDocs \cup TwinDocs
  \cup {Document(Undefined), Document(Obj(<<>>))}

\* the sample document, cut down to a read and a write operation of two tags
sampleOpenAPISpec ==
  Obj(<<<<"openapi", Str(<<"3.0.3">>)>>,
        <<"tags", Arr(<<Obj(<<<<"name", Str(<<"Pets">>)>>,
                              <<"description", Str(<<"Everything about your Pets">>)>>>>),
                        Obj(<<<<"name", Str(<<"Orders">>)>>,
                              <<"description", Str(<<"Access to Petstore orders">>)>>>>)>>)>>,
        <<"paths", Obj(<<<<"/pets", Obj(<<<<"get", Operation(Arr(<<Str(<<"Pets">>)>>),
                                                            Undefined, Undefined)>>>>)>>,
                         <<"/orders", Obj(<<<<"post", Operation(Arr(<<Str(<<"Orders">>)>>),
                                                               Undefined, Undefined)>>>>)>>>>)>>>>)

\* two documents a user loads: one endpoint each, tagged and untagged
LoadedA ==
  Obj(<<<<"openapi", Str(<<"3.0.0">>)>>,
        <<"paths", Obj(<<<<"/a", Obj(<<<<"get", Operation(Arr(<<Str(<<"pets">>)>>),
                                                         Undefined, Undefined)>>>>)>>>>)>>>>)
LoadedB ==
  Obj(<<<<"openapi", Str(<<"3.0.0">>)>>,
        <<"paths", Obj(<<<<"/b", Obj(<<<<"get", Operation(Undefined, Undefined, Undefined)>>,
                                       <<"post", Operation(Undefined, Undefined, Undefined)>>>>)>>>>)>>>>)

\* a document without any path
LoadedEmpty == Obj(<<<<"openapi", Str(<<"3.0.0">>)>>, <<"paths", Obj(<<>>)>>>>)

\* the texts a user submits, named by what they hold: document A as JSON,
\* document B as YAML, document A as JSON with a key written twice, the JSON
\* texts null and 42, the empty text, a YAML scalar, an unbalanced brace, and
\* JSON objects without one of the required fields or without any path
Contents ==
  {"json:A", "yaml:B", "json:A,duplicate-key", "null", "42", "", "hello", "{",
   "json:no-paths", "json:no-openapi", "json:empty"}

\* JSON.parse(content): the value, or the SyntaxError it throws
JSONParse(content) ==
  CASE content = "json:A" -> LoadedA
    [] content = "json:A,duplicate-key" -> LoadedA
    [] content = "null" -> Null
    [] content = "42" -> Num(42)
    [] content = "json:no-paths" -> Obj(<<<<"openapi", Str(<<"3.0.0">>)>>>>)
    [] content = "json:no-openapi" -> Obj(<<<<"paths", Obj(<<>>)>>>>)
    [] content = "json:empty" -> LoadedEmpty
    [] OTHER -> Throw("SyntaxError")

\* yaml.load(content): the value, or the YAMLException it throws; a mapping
\* with a key written twice is an error and the empty text is no document
YamlLoad(content) ==
  CASE content = "json:A" -> LoadedA
    [] content = "yaml:B" -> LoadedB
    [] content = "null" -> Null
    [] content = "42" -> Num(42)
    [] content = "" -> Undefined
    [] content = "hello" -> Str(<<"hello">>)
    [] content = "json:no-paths" -> Obj(<<<<"openapi", Str(<<"3.0.0">>)>>>>)
    [] content = "json:no-openapi" -> Obj(<<<<"paths", Obj(<<>>)>>>>)
    [] content = "json:empty" -> LoadedEmpty
    [] OTHER -> Throw("YAMLException")

FailedToParse == Throw("Failed to parse spec. Please provide valid JSON or YAML.")
InvalidSpec == Throw("Invalid OpenAPI spec. Missing required fields.")

\* the inner try of parseOpenAPISpec
ParseYaml(loaded) == IF IsThrow(loaded) THEN FailedToParse ELSE loaded

\* the outer try of parseOpenAPISpec
ParseJson(parsed, content) ==
  IF IsThrow(parsed) THEN ParseYaml(YamlLoad(content)) ELSE parsed

\* !read, where read is spec.openapi or spec.paths
Missing(read) == ~Truthy(read)

\* if (!spec.openapi || !spec.paths) throw ...; return spec
CheckFields(parsed, openapi) ==
  IF IsThrow(parsed) THEN parsed
  ELSE IF IsThrow(openapi) THEN openapi
  ELSE IF Missing(openapi) \/ Missing(Prop(parsed, Load(parsed, <<>>), "paths")) THEN InvalidSpec
  ELSE parsed

parseOpenAPISpec(content) ==
  CheckFields(ParseJson(JSONParse(content), content),
              Prop(ParseJson(JSONParse(content), content),
                   Load(ParseJson(JSONParse(content), content), <<>>), "openapi"))

----------------------------------------------------------------------------
(* The engine as a state machine: a caller holds a document and applies the *)
(* operations to it                                                          *)

VARIABLES
  spec,       \* the specification document the caller holds
  endpoints,  \* the endpoint list the caller holds, extracted from it
  op,         \* the operation applied last
  arg,        \* its schema, endpoint or language argument
  result,     \* the value it returned, or the error it threw
  tags,       \* the Parsed Tags the hook holds
  loading,    \* the loading flag of the hook
  error,      \* the error message of the hook, null when there is none
  loads,      \* the loads started so far, in starting order: <<kind, stage, overlapped>>
  installed,  \* the load that set the document the hook holds, 0 for none
  selectedEndpoint  \* the endpoint the page shows, null when there is none

vars ==
  <<spec, endpoints, op, arg, result, tags, loading, error, loads, installed, selectedEndpoint>>

\* the state of the hook and of the page
hookVars == <<tags, loading, error, loads, installed, selectedEndpoint>>

\* the last call of a core operation
callVars == <<op, arg, result>>

SchemasPath == <<"components", "schemas">>

\* whether path leads through own properties of the document
RECURSIVE Exists(_, _)
Exists(doc, path) ==
  path = <<>> \/ (Exists(doc, SubSeq(path, 1, Len(path) - 1))
                  /\ HasOwn(At(doc, SubSeq(path, 1, Len(path) - 1)), path[Len(path)]))

\* where the children of the schema at path are: items, property schemas, branches
ChildPaths(doc, path) ==
  {q \in {path \o <<"items">>}
       \cup {path \o <<"properties", PropNames[i]>> : i \in 1..Len(PropNames)}
       \cup {path \o <<k, IndexKeys[i]>> : k \in {"oneOf", "anyOf", "allOf"},
                                            i \in 1..Len(IndexKeys)} :
     Exists(doc, q)}

\* the schema positions of a document: the request body schema, the named
\* schemas and their children
SchemaPaths(doc) ==
  LET named == {q \in {SchemasPath \o <<SchemaNames[i]>> : i \in 1..Len(SchemaNames)} :
                  Exists(doc, q)}
  IN {q \in {BodyPath} : Exists(doc, q)} \cup named
     \cup UNION {ChildPaths(doc, q) : q \in named}

\* the schema arguments a caller passes: a schema of the document, or none
SchemaArgs(doc) == {Load(doc, q) : q \in SchemaPaths(doc)} \cup {Undefined}

\* the languages of the playground
Languages == {"curl", "javascript", "python", "go"}

\* the options a caller passes to a generator
Options ==
  {Obj(<<<<"baseUrl", Str(<<"https:", "/", "/", "api">>)>>>>),
   Obj(<<<<"baseUrl", Str(<<"https:", "/", "/", "api">>)>>,
         <<"authToken", Str(<<"tok">>)>>,
         <<"headers", Obj(<<<<"X-Api-Key", Str(<<"key">>)>>>>)>>>>),
   Obj(<<<<"baseUrl", Str(<<"https:", "/", "/", "api">>)>>,
         <<"authToken", Str(<<"tok">>)>>,
         <<"headers", Obj(<<<<"Authorization", Str(<<"Basic", " ", "x">>)>>,
                            <<"Content-Type", Str(<<"text/xml">>)>>>>)>>>>),
   Obj(<<<<"baseUrl", Str(<<"https:", "/", "/", "api">>)>>,
         <<"authToken", Str(<<>>)>>,
         <<"headers", Obj(<<<<"Authorization", Str(<<"Basic", " ", "x">>)>>>>)>>>>)}

Init ==
  /\ spec \in Docs
  /\ endpoints = extractEndpoints(spec).v
  /\ op = "load"
  /\ arg = Undefined
  /\ result = Undefined
  /\ tags = groupEndpointsByTag(spec, endpoints).v
  /\ loading = FALSE
  /\ error = Null
  /\ loads = <<>>
  /\ installed = 0
  /\ selectedEndpoint = Null

\* the caller is between two calls
Idle == op = "load"

CallResolveSchema ==
  /\ Idle
  /\ \E schema \in SchemaArgs(spec) :
       /\ op' = "resolveSchema"
       /\ arg' = schema
       /\ result' = resolveSchema(spec, schema, 1)
       /\ UNCHANGED <<spec, endpoints>>
       /\ UNCHANGED hookVars

\* r is what the call returns and the document it leaves
CallGenerateExample ==
  /\ Idle
  /\ \E schema \in SchemaArgs(spec) :
       \E r \in {generateExampleFromSchema(spec, schema, 1)} :
         /\ op' = "generateExampleFromSchema"
         /\ arg' = schema
         /\ result' = r.v
         /\ spec' = r.doc
         /\ endpoints' = endpoints
         /\ UNCHANGED hookVars

\* the caller extracts the endpoints again and holds the new list
CallExtractEndpoints ==
  /\ Idle
  /\ \E r \in {extractEndpoints(spec)} :
       /\ op' = "extractEndpoints"
       /\ arg' = Undefined
       /\ result' = r.v
       /\ spec' = r.doc
       /\ endpoints' = r.v
       /\ UNCHANGED hookVars

CallGroupEndpointsByTag ==
  /\ Idle
  /\ \E r \in {groupEndpointsByTag(spec, endpoints)} :
       /\ op' = "groupEndpointsByTag"
       /\ arg' = Undefined
       /\ result' = r.v
       /\ spec' = r.doc
       /\ endpoints' = r.endpoints
       /\ UNCHANGED hookVars

CallGenerateCode ==
  /\ Idle
  /\ \E language \in Languages, i \in 1..Len(endpoints[2]), options \in Options :
       \E r \in {generateCode(language, spec, endpoints[2][i], options)} :
         /\ op' = "generateCode"
         /\ arg' = <<language, endpoints[2][i], options>>
         /\ result' = r.v
         /\ spec' = r.doc
         /\ endpoints' = endpoints
         /\ UNCHANGED hookVars

\* the caller parses a text; the document it holds stays
CallParseOpenAPISpec ==
  /\ Idle
  /\ \E content \in Contents :
       /\ op' = "parseOpenAPISpec"
       /\ arg' = Str(<<content>>)
       /\ result' = parseOpenAPISpec(content)
       /\ UNCHANGED <<spec, endpoints>>
       /\ UNCHANGED hookVars

\* the caller is done with the result and goes on to its next call
Return ==
  /\ ~Idle
  /\ op' = "load"
  /\ arg' = Undefined
  /\ result' = Undefined
  /\ UNCHANGED <<spec, endpoints>>
  /\ UNCHANGED hookVars

Next ==
  \/ CallResolveSchema
  \/ CallGenerateExample
  \/ CallExtractEndpoints
  \/ CallGroupEndpointsByTag
  \/ CallGenerateCode
  \/ CallParseOpenAPISpec
  \/ Return

Spec == Init /\ [][Next]_vars

----------------------------------------------------------------------------
(* The hook and the page as a state machine: loads are started, their      *)
(* requests and reads complete in any order, and every update of the hook  *)
(* is followed by the effects of the page                                   *)

\* the state the hook exposes: <<spec, endpoints, tags, loading, error>>
Hook == <<spec, endpoints, tags, loading, error>>

\* err instanceof Error ? err.message : ...
Message(err) == Str(<<err[2]>>)

\* SetViews without setTags: the tags of no document
SetViewsWithoutTags(parsed, parsedEndpoints) == <<parsed, parsedEndpoints, Arr(<<>>)>>

\* setSpec(parsed); setEndpoints(parsedEndpoints); setTags(parsedTags)
SetViews(parsed, parsedEndpoints) ==
  <<parsed, parsedEndpoints, groupEndpointsByTag(parsed, parsedEndpoints).v>>

\* LoadParsed with the document set to null when the parse fails
LoadParsedClearing(h, parsed) ==
  IF IsThrow(parsed) THEN <<Null, Arr(<<>>), Arr(<<>>), FALSE, Message(parsed)>>
  ELSE SetViews(parsed, extractEndpoints(parsed).v) \o <<FALSE, Null>>

\* the rest of loadSpec for the result of the parse in hand: the three views
\* are set, or the message of the error; loading ends false either way
LoadParsed(h, parsed) ==
  IF IsThrow(parsed) THEN <<h[1], h[2], h[3], FALSE, Message(parsed)>>
  ELSE SetViews(parsed, extractEndpoints(parsed).v) \o <<FALSE, Null>>

\* the hook after loadSpec(content)
loadSpec(h, content) == LoadParsed(h, parseOpenAPISpec(content))

\* the hook after the first two lines of loadFromUrl
loadFromUrl(h) == <<h[1], h[2], h[3], TRUE, Null>>

\* the hook after the catch block of loadFromUrl
CatchFetch(h, message) == <<h[1], h[2], h[3], FALSE, Str(<<message>>)>>

\* the hook after reader.onerror
ReaderError(h) == <<h[1], h[2], h[3], h[4], Str(<<"Failed to read file">>)>>

\* the hook after resetToSample
resetToSample(h) ==
  SetViews(sampleOpenAPISpec, extractEndpoints(sampleOpenAPISpec).v) \o <<h[4], Null>>

\* the tags have a first endpoint: tags.length > 0 && tags[0].endpoints.length > 0
HasFirst(ts) == Len(ts[2]) > 0 /\ Len(GetOwn(ts[2][1], "endpoints")[2]) > 0

\* the two effects of the page: the first endpoint is selected when the hook
\* has set new tags, or when none is selected
Effects(ts, tagsSet, selected) ==
  IF HasFirst(ts) /\ (tagsSet \/ ~Truthy(selected))
  THEN GetOwn(ts[2][1], "endpoints")[2][1]
  ELSE selected

\* the hook takes the state h and the page runs its effects
Render(h, tagsSet) ==
  /\ spec' = h[1]
  /\ endpoints' = h[2]
  /\ tags' = h[3]
  /\ loading' = h[4]
  /\ error' = h[5]
  /\ selectedEndpoint' = Effects(h[3], tagsSet, selectedEndpoint)

\* the loadFromUrl calls whose request is under way
InFlight ==
  {t \in 1..Len(loads) : loads[t][1] = "url" /\ loads[t][2] \in {"fetch", "text"}}

\* the loads after one more is started
Started(kind, stage) == Append(loads, <<kind, stage, InFlight>>)

\* the loads after load t has reached a stage
Staged(t, stage) == [loads EXCEPT ![t] = <<loads[t][1], stage, loads[t][3]>>]

\* the stage a load ends in
Outcome(h) == IF h[5] = Null THEN "ok" ELSE "failed"

HookInit ==
  /\ spec = sampleOpenAPISpec
  /\ endpoints = extractEndpoints(sampleOpenAPISpec).v
  /\ tags = groupEndpointsByTag(sampleOpenAPISpec, extractEndpoints(sampleOpenAPISpec).v).v
  /\ loading = FALSE
  /\ error = Null
  /\ loads = <<>>
  /\ installed = 0
  /\ selectedEndpoint =
       Effects(groupEndpointsByTag(sampleOpenAPISpec,
                                   extractEndpoints(sampleOpenAPISpec).v).v, TRUE, Null)
  /\ op = "load"
  /\ arg = Undefined
  /\ result = Undefined

\* a caller of the hook calls loadSpec with a text
CallLoadSpec ==
  /\ Len(loads) < MaxLoads
  /\ \E content \in Contents :
       \E h \in {loadSpec(Hook, content)} :
         /\ Render(h, h[5] = Null)
         /\ loads' = Started("spec", Outcome(h))
         /\ installed' = IF h[5] = Null THEN Len(loads) + 1 ELSE installed
  /\ UNCHANGED callVars

\* the user submits a URL: the request starts
CallLoadFromUrl ==
  /\ Len(loads) < MaxLoads
  /\ Render(loadFromUrl(Hook), FALSE)
  /\ loads' = Started("url", "fetch")
  /\ UNCHANGED <<installed, callVars>>

\* the response of a request arrives: its body is awaited when it is ok, and
\* the catch block runs when it is not
FetchResponds ==
  /\ \E t \in 1..Len(loads) :
       /\ loads[t][2] = "fetch"
       /\ \/ /\ loads' = Staged(t, "text")
             /\ UNCHANGED <<spec, endpoints, tags, loading, error, selectedEndpoint>>
          \/ /\ loads' = Staged(t, "failed")
             /\ Render(CatchFetch(Hook, "Failed to fetch: Not Found"), FALSE)
  /\ UNCHANGED <<installed, callVars>>

\* the request or the read of its body fails: the catch block runs
FetchFails ==
  /\ \E t \in 1..Len(loads) :
       /\ loads[t][2] \in {"fetch", "text"}
       /\ loads' = Staged(t, "failed")
       /\ Render(CatchFetch(Hook, "Failed to fetch"), FALSE)
  /\ UNCHANGED <<installed, callVars>>

\* the body of a response arrives: loadSpec(content)
TextArrives ==
  /\ \E t \in 1..Len(loads), content \in Contents :
       /\ loads[t][2] = "text"
       /\ \E h \in {loadSpec(Hook, content)} :
            /\ Render(h, h[5] = Null)
            /\ loads' = Staged(t, Outcome(h))
            /\ installed' = IF h[5] = Null THEN t ELSE installed
  /\ UNCHANGED callVars

\* the user picks a file: the read starts
CallLoadFromFile ==
  /\ Len(loads) < MaxLoads
  /\ loads' = Started("file", "read")
  /\ UNCHANGED <<spec, endpoints, tags, loading, error, selectedEndpoint, installed, callVars>>

\* reader.onload: loadSpec(content)
FileRead ==
  /\ \E t \in 1..Len(loads), content \in Contents :
       /\ loads[t][2] = "read"
       /\ \E h \in {loadSpec(Hook, content)} :
            /\ Render(h, h[5] = Null)
            /\ loads' = Staged(t, Outcome(h))
            /\ installed' = IF h[5] = Null THEN t ELSE installed
  /\ UNCHANGED callVars

\* reader.onerror
FileFails ==
  /\ \E t \in 1..Len(loads) :
       /\ loads[t][2] = "read"
       /\ loads' = Staged(t, "failed")
       /\ Render(ReaderError(Hook), FALSE)
  /\ UNCHANGED <<installed, callVars>>

\* the user resets to the sample
CallResetToSample ==
  /\ Len(loads) < MaxLoads
  /\ Render(resetToSample(Hook), TRUE)
  /\ loads' = Started("reset", "ok")
  /\ installed' = Len(loads) + 1
  /\ UNCHANGED callVars

\* the user selects an endpoint of the sidebar, which lists the current tags
SelectEndpoint ==
  /\ \E b \in 1..Len(tags[2]) :
       \E n \in 1..Len(GetOwn(tags[2][b], "endpoints")[2]) :
         /\ GetOwn(tags[2][b], "endpoints")[2][n] # selectedEndpoint
         /\ selectedEndpoint' = GetOwn(tags[2][b], "endpoints")[2][n]
  /\ UNCHANGED <<spec, endpoints, tags, loading, error, loads, installed, callVars>>

HookNext ==
  \/ CallLoadSpec
  \/ CallLoadFromUrl
  \/ FetchResponds
  \/ FetchFails
  \/ TextArrives
  \/ CallLoadFromFile
  \/ FileRead
  \/ FileFails
  \/ CallResetToSample
  \/ SelectEndpoint

HookSpec == HookInit /\ [][HookNext]_vars

----------------------------------------------------------------------------
(* Properties of the Reference Resolver *)

AfterResolve == op = "resolveSchema"
AfterGenerate == op = "generateExampleFromSchema"

\* the node the argument of the last call resolves to
Resolved == resolveSchema(spec, arg, 1)

\* a reference node: a node of the document that carries a non-empty string $ref
IsReference(doc, v) ==
  /\ Tag(v) = "ptr"
  /\ Tag(Prop(doc, v, "$ref")) = "str"
  /\ Prop(doc, v, "$ref")[2] # <<>>

\* the node a reference node points at, Undefined when the reference is broken
Follow(doc, v) == resolveRef(doc, Prop(doc, v, "$ref"))

\* more links than a chain without a cycle has in any document of the model
MaxLinks == NumSchemas + 2

RECURSIVE Links(_, _, _)
\* the first n reference nodes met from v on, each pointing at the next
Links(doc, v, n) ==
  IF n = 0 \/ ~IsReference(doc, v) THEN <<>>
  ELSE <<v>> \o Links(doc, Follow(doc, v), n - 1)

\* the chain of references that starts at v, when it is a chain and not a cycle
ChainOf(doc, v) == Links(doc, v, MaxLinks)
IsChain(doc, v) == Len(ChainOf(doc, v)) \in 1..(MaxLinks - 1)

\* C1: generateExampleFromSchema terminates and returns a value for every
\* document and schema node, self-referential schema graphs included: no call
\* ends with the call stack exhausted.
C1_GenerateTerminates == AfterGenerate => result # Throw("RangeError")

\* C2: resolveSchema terminates for every document and node, cycles of
\* references included: no call ends with the call stack exhausted.
C2_ResolveTerminates == AfterResolve => result # Throw("RangeError")

\* C3: resolveSchema returns a node without $ref as that same node;
\* its result is absent or a node without a $ref; resolving the result again
\* returns it.
C3_ResultHasNoRef ==
  AfterResolve /\ ~IsThrow(result) =>
    /\ (Tag(arg) = "ptr" /\ Prop(spec, arg, "$ref") = Undefined => result = arg)
    /\ (result = Undefined \/ Prop(spec, result, "$ref") = Undefined)
    /\ resolveSchema(spec, result, 1) = result

\* C4: for a chain r1 -> ... -> rN -> target of N >= 1 reference nodes without
\* a cycle, resolveSchema of r1 returns what resolveSchema of rN returns: the
\* target rN points at, or absent when rN points at nothing.
C4_ChainTransitive ==
  AfterResolve /\ IsChain(spec, arg) /\ ~IsThrow(result) =>
    LET chain == ChainOf(spec, arg)
        rN == chain[Len(chain)]
        target == Follow(spec, rN)
    IN /\ result = resolveSchema(spec, rN, 1)
       /\ result = (IF Truthy(target) THEN target ELSE Undefined)

\* a chain of two references or more that ends at a schema was resolved to
\* that schema
C4_Witness ==
  /\ AfterResolve
  /\ IsChain(spec, arg)
  /\ Len(ChainOf(spec, arg)) >= 2
  /\ Tag(result) = "ptr"
  /\ result = Follow(spec, ChainOf(spec, arg)[Len(ChainOf(spec, arg))])

\* the parts of a string $ref that starts with "#/"
PointerParts(ref) == Split(Slice(ref[2], 2), "/")

\* the argument is a reference the document cannot follow: no "#/" in front, or
\* a part that is no own property where the walk reaches it
IsBrokenReference(doc, v) ==
  /\ IsReference(doc, v)
  /\ \/ ~StartsWith(Prop(doc, v, "$ref")[2], <<"#", "/">>)
     \/ ~Exists(doc, PointerParts(Prop(doc, v, "$ref")))

\* C5: a broken or unsupported reference is no error: for an undefined node
\* and for a $ref that has no "#/" in front or a missing path segment,
\* resolveSchema returns absent and generateExampleFromSchema returns null, and
\* neither throws on a missing or malformed sub-node.
C5_BrokenReferenceIsAbsent ==
  AfterResolve \/ AfterGenerate =>
    /\ result # Throw("TypeError")
    /\ (arg = Undefined \/ IsBrokenReference(spec, arg) =>
          result = (IF AfterResolve THEN Undefined ELSE Null))

----------------------------------------------------------------------------
(* Frame of the core operations *)

\* C6: no step of any operation (resolveSchema, generateExampleFromSchema,
\* extractEndpoints, groupEndpointsByTag, the four code generators) changes
\* the specification document or the endpoint list the caller holds
C6_InputsUnchanged == [][spec' = spec /\ endpoints' = endpoints]_vars

\* a generator has rendered a payload merged from an allOf whose second branch
\* yields an example object owned by the document
C6_Witness ==
  /\ op = "generateCode"
  /\ Tag(result) = "code"
  /\ result[6] = Stringify(spec, Obj(<<<<"a", Bool(TRUE)>>, <<"k", Num(1)>>>>))

----------------------------------------------------------------------------
(* Properties of the Example Synthesizer *)

\* the last call synthesized from a node that resolved
Synthesized == AfterGenerate /\ ~IsThrow(result) /\ Truthy(Resolved)

\* the resolved node carries neither example nor default
NoPreset ==
  /\ Prop(spec, Resolved, "example") = Undefined
  /\ Prop(spec, Resolved, "default") = Undefined

ResolvedType == Prop(spec, Resolved, "type")

\* C7: an explicit example of the resolved node is returned whatever the node
\* declares besides; without example, its default is returned.
C7_ExampleThenDefault ==
  Synthesized =>
    LET example == Prop(spec, Resolved, "example")
        default == Prop(spec, Resolved, "default")
    IN /\ example # Undefined => result = example
       /\ example = Undefined /\ default # Undefined => result = default

\* a node with example, default, type and enum was synthesized
C7_Witness ==
  /\ Synthesized
  /\ Prop(spec, Resolved, "example") # Undefined
  /\ Prop(spec, Resolved, "default") # Undefined
  /\ ResolvedType = Str(<<"string">>)
  /\ Truthy(Prop(spec, Resolved, "enum"))
  /\ result = Prop(spec, Resolved, "example")

\* the first value of a stored enum, Undefined when it has none
FirstOf(enum) == IF Len(enum[2]) > 0 THEN enum[2][1] ELSE Undefined

\* C8: without example and default, a string node yields its first enum value
\* if it has an enum, else the fixed sample of its format, else "string"; a
\* number or integer node its first enum value if it has an enum, else 0; a
\* boolean node true.
C8_ScalarLiteral ==
  Synthesized /\ NoPreset /\ ResolvedType \in ScalarTypes =>
    LET node == Target(spec, Resolved)
        hasEnum == HasOwn(node, "enum")
        format == IF HasOwn(node, "format") THEN GetOwn(node, "format") ELSE Undefined
    IN CASE ResolvedType = Str(<<"string">>) ->
              IF hasEnum THEN result = FirstOf(GetOwn(node, "enum"))
              ELSE IF format = Str(<<"date">>) THEN result = Str(<<"2024-01-15">>)
              ELSE IF format = Str(<<"date-time">>) THEN result = Str(<<"2024-01-15T10:30:00Z">>)
              ELSE IF format = Str(<<"email">>) THEN result = Str(<<"user@example.com">>)
              ELSE IF format = Str(<<"uuid">>)
                   THEN result = Str(<<"550e8400-e29b-41d4-a716-446655440000">>)
              ELSE IF format = Str(<<"uri">>) THEN result = Str(<<"https://example.com">>)
              ELSE result = Str(<<"string">>)
         [] ResolvedType = Str(<<"boolean">>) -> result = Bool(TRUE)
         [] OTHER -> IF hasEnum THEN result = FirstOf(GetOwn(node, "enum"))
                     ELSE result = Num(0)

\* a string node with an enum and a format was synthesized to its first enum value
C8_Witness ==
  /\ Synthesized /\ NoPreset
  /\ ResolvedType = Str(<<"string">>)
  /\ Prop(spec, Resolved, "format") = Str(<<"date">>)
  /\ result = Str(<<"a">>)

\* what a call on its own synthesizes from a schema
ExampleOf(schema) == generateExampleFromSchema(spec, schema, 1).v

\* C9: without example and default, an array node yields the one-element
\* sequence of the value synthesized from items whenever that value is not
\* null, whatever the item type, and the empty sequence only when it is null.
C9_ArrayWrapsNonNull ==
  Synthesized /\ NoPreset /\ ResolvedType = Str(<<"array">>) =>
    LET item == ExampleOf(Prop(spec, Resolved, "items"))
    IN result = (IF item # Null THEN Arr(<<item>>) ELSE Arr(<<>>))

\* C10: without example and default, an object node yields the mapping of its
\* declared property names, in declaration order, each to the synthesis of its
\* schema, null included; without properties, the empty mapping.
C10_ObjectProperties ==
  Synthesized /\ NoPreset /\ ResolvedType = Str(<<"object">>) =>
    LET node == Target(spec, Resolved)
        declared == IF HasOwn(node, "properties")
                    THEN GetOwn(node, "properties")[2] ELSE <<>>
    IN result = Obj([i \in 1..Len(declared) |->
                       <<declared[i][1],
                         ExampleOf(Load(spec, Resolved[2] \o <<"properties", declared[i][1]>>))>>])

\* the types the switch of the synthesizer has a case for
RecognizedTypes == ScalarTypes \cup {Str(<<"array">>), Str(<<"object">>)}

\* the first branch of the composition k of the resolved node, Undefined when
\* the node has no such composition or the composition has no branch
FirstBranch(k) ==
  LET node == Target(spec, Resolved)
  IN IF HasOwn(node, k) /\ Tag(GetOwn(node, k)) = "arr" /\ Len(GetOwn(node, k)[2]) > 0
     THEN Load(spec, Resolved[2] \o <<k, "0">>)
     ELSE Undefined

\* the last call synthesized from a resolved node of the document without
\* example, default and recognized type
Composed ==
  /\ Synthesized /\ NoPreset
  /\ Tag(Resolved) = "ptr"
  /\ ResolvedType \notin RecognizedTypes

\* C11: without example, default and recognized type the compositions are
\* tried in a fixed order: the synthesis of oneOf[0] if oneOf has a first
\* branch, else the synthesis of anyOf[0] if anyOf has one, else the allOf
\* merge (a mapping) if allOf is present, else null.
C11_CompositionOrder ==
  Composed =>
    IF FirstBranch("oneOf") # Undefined THEN result = ExampleOf(FirstBranch("oneOf"))
    ELSE IF FirstBranch("anyOf") # Undefined THEN result = ExampleOf(FirstBranch("anyOf"))
    ELSE IF HasOwn(Target(spec, Resolved), "allOf") THEN Tag(result) = "obj"
    ELSE result = Null

\* a node with a first branch in oneOf, anyOf and allOf was synthesized from
\* its oneOf branch
C11_Witness ==
  /\ Composed
  /\ FirstBranch("oneOf") # Undefined
  /\ FirstBranch("anyOf") # Undefined
  /\ FirstBranch("allOf") # Undefined
  /\ result = Num(0)

\* the mapping m with the keys of the synthesized value e laid over it when
\* e is a mapping; null, a scalar and a sequence contribute nothing
Overlay(m, e) == IF Tag(e) = "obj" THEN SetProps(m, e[2]) ELSE m

RECURSIVE MergeFrom(_, _, _)
\* the left-to-right merge of what the branches i.. of the list at path
\* synthesize to, laid over the mapping m
MergeFrom(path, i, m) ==
  IF i > Len(At(spec, path)[2]) THEN m
  ELSE MergeFrom(path, i + 1,
                 Overlay(m, Deref(spec, ExampleOf(Load(spec, path \o <<IndexKeys[i]>>)))))

\* the last call synthesized from an untyped node with an allOf list and
\* without first branch in oneOf and anyOf
Merged ==
  /\ Composed
  /\ ResolvedType = Undefined
  /\ FirstBranch("oneOf") = Undefined
  /\ FirstBranch("anyOf") = Undefined
  /\ HasOwn(Target(spec, Resolved), "allOf")
  /\ Tag(GetOwn(Target(spec, Resolved), "allOf")) = "arr"

\* C12: for an untyped node with allOf the result is the left-to-right shallow
\* merge of the mappings the branches synthesize to, a later branch
\* overwriting an earlier one; a branch that synthesizes to null, a scalar or
\* a sequence contributes no keys.
C12_AllOfShallowMerge ==
  Merged => Deref(spec, result) = MergeFrom(Resolved[2] \o <<"allOf">>, 1, Obj(<<>>))

----------------------------------------------------------------------------
(* Properties of the Endpoint Extractor *)

\* the path items of the document in declaration order, as <<template, item>>
PathItems == Entries(At(spec, <<"paths">>))

\* the position of a verb in the canonical order, 0 for any other word
VerbRank(verb) ==
  CASE verb = "get" -> 1 [] verb = "post" -> 2 [] verb = "put" -> 3
    [] verb = "patch" -> 4 [] verb = "delete" -> 5 [] verb = "options" -> 6
    [] verb = "head" -> 7 [] OTHER -> 0

\* the keys of a path item that are verbs with an operation
Verbs(item) ==
  {Entries(item)[i][1] :
     i \in {i \in 1..Len(Entries(item)) :
              VerbRank(Entries(item)[i][1]) > 0 /\ Truthy(Entries(item)[i][2])}}

\* the (path, verb) pairs of the document that have an operation
Routes ==
  UNION {{<<p, verb>> : verb \in Verbs(PathItems[p][2])} : p \in 1..Len(PathItems)}

\* the entry of the route <<p, verb>> but for its id
IsEntryOf(e, route) ==
  LET template == PathItems[route[1]][1]
  IN /\ GetOwn(e, "path") = Str(Spelling(template))
     /\ GetOwn(e, "method") = Str(<<route[2]>>)
     /\ GetOwn(e, "operation") = Ptr(<<"paths", template, route[2]>>)
     /\ GetOwn(e, "pathParameters") = Prop(spec, Ptr(<<"paths", template>>), "parameters")

\* the route an entry stands for
RouteOf(e) == CHOOSE route \in Routes : IsEntryOf(e, route)

\* C13: the list holds exactly one entry for each (path, verb) pair with an
\* operation and no other entry, ordered by path declaration order and within
\* a path by the canonical verb order, each entry carrying its path, verb,
\* operation and the shared parameters of its path item.
C13_OneEntryPerRoute ==
  LET es == endpoints[2]
  IN /\ \A i \in 1..Len(es) : \E route \in Routes : IsEntryOf(es[i], route)
     /\ \A route \in Routes : \E i \in 1..Len(es) : IsEntryOf(es[i], route)
     /\ \A i, j \in 1..Len(es) :
          i < j => \/ RouteOf(es[i])[1] < RouteOf(es[j])[1]
                   \/ /\ RouteOf(es[i])[1] = RouteOf(es[j])[1]
                      /\ VerbRank(RouteOf(es[i])[2]) < VerbRank(RouteOf(es[j])[2])

\* the endpoints of a document with three paths were extracted again: five
\* entries, the get of /a before its post, the patch of /a/b before its head
C13_Witness ==
  /\ op = "extractEndpoints"
  /\ Len(PathItems) = 3
  /\ Len(result[2]) = 5
  /\ GetOwn(result[2][1], "method") = Str(<<"get">>)
  /\ GetOwn(result[2][4], "method") = Str(<<"patch">>)
  /\ GetOwn(result[2][5], "path") = Str(<<"/", "a", "/", "b">>)

\* a string with a hyphen in the place of each symbol outside [A-Za-z0-9]
Hyphenated(s) == [i \in 1..Len(s) |-> IF s[i] \in NonAlphanumeric THEN "-" ELSE s[i]]

\* the id the entry e is to have: verb + '-' + path, hyphenated
IdOf(e) == Str(Hyphenated(GetOwn(e, "method")[2] \o <<"-">> \o GetOwn(e, "path")[2]))

\* the ids of a list of entries
Ids(es) == [i \in 1..Len(es[2]) |-> GetOwn(es[2][i], "id")]

\* C14: every entry has the id verb + '-' + path with '-' in the place of
\* every character outside [A-Za-z0-9]; the id depends on verb and path only,
\* so that extracting again yields the same ids.
C14_IdFromVerbAndPath ==
  [][/\ \A i \in 1..Len(endpoints[2]) : GetOwn(endpoints[2][i], "id") = IdOf(endpoints[2][i])
     /\ op' = "extractEndpoints" =>
          /\ Ids(result') = Ids(endpoints)
          /\ \A i \in 1..Len(result'[2]) : GetOwn(result'[2][i], "id") = IdOf(result'[2][i])]_vars

\* the endpoints of a document with a templated path were extracted again:
\* each symbol of the template has become a hyphen
C14_Witness ==
  /\ op = "extractEndpoints"
  /\ Len(result[2]) = 3
  /\ GetOwn(result[2][1], "path") = Str(<<"/", "pets", "/", "{", "petId", "}">>)
  /\ GetOwn(result[2][1], "id") = Str(<<"get", "-", "-", "pets", "-", "-", "petId", "-">>)
  /\ Ids(result) = Ids(endpoints)

\* the document has the paths /a (get, post) and /b (get) and no other
PathsAB ==
  /\ Len(PathItems) = 2
  /\ PathItems[1][1] = "/a" /\ Verbs(PathItems[1][2]) = {"get", "post"}
  /\ PathItems[2][1] = "/b" /\ Verbs(PathItems[2][2]) = {"get"}

\* C15 as stated: for the paths /a (get, post) and /b (get) the ids are
\* get-a, post-a and get-b, with a single hyphen between verb and segment.
C15_SingleHyphen ==
  PathsAB => Ids(endpoints) = <<Str(<<"get", "-", "a">>), Str(<<"post", "-", "a">>),
                                Str(<<"get", "-", "b">>)>>

\* C15 amended: for the paths /a (get, post) and /b (get) the ids are
\* get--a, post--a and get--b: the hyphen that joins verb and path is followed
\* by the hyphen that replaces the leading slash of the path.
C15_TwoHyphens ==
  PathsAB => Ids(endpoints) = <<Str(<<"get", "-", "-", "a">>), Str(<<"post", "-", "-", "a">>),
                                Str(<<"get", "-", "-", "b">>)>>

\* the endpoints of such a document were extracted again
C15_Witness ==
  /\ PathsAB
  /\ op = "extractEndpoints"
  /\ Ids(result) = <<Str(<<"get", "-", "-", "a">>), Str(<<"post", "-", "-", "a">>),
                     Str(<<"get", "-", "-", "b">>)>>

----------------------------------------------------------------------------
(* Properties of the Tag Grouper *)

AfterGroup == op = "groupEndpointsByTag"

\* the tag names the operation of the i-th endpoint declares, in declared
\* order; none when it has no tags
Declared(i) ==
  LET declared == Prop(spec, Prop(spec, endpoints[2][i], "operation"), "tags")
  IN IF Tag(declared) = "ptr" THEN At(spec, declared[2])[2] ELSE <<>>

\* the tag names the i-th endpoint is grouped under
Carried(i) == IF Declared(i) = <<>> THEN <<Str(<<"Untagged">>)>> ELSE Declared(i)

\* how often the i-th endpoint appears in the bucket b of the result
Times(i, b) ==
  Cardinality({n \in 1..Len(GetOwn(result[2][b], "endpoints")[2]) :
                 GetOwn(result[2][b], "endpoints")[2][n] = endpoints[2][i]})

\* C16: every endpoint is in at least one bucket: exactly once in the bucket
\* Untagged when its operation declares no tags (missing or empty), and else
\* exactly once in the bucket of each declared tag name and in no other.
C16_EveryEndpointGrouped ==
  AfterGroup =>
    \A i \in 1..Len(endpoints[2]) :
      /\ \E b \in 1..Len(result[2]) : Times(i, b) > 0
      /\ \A b \in 1..Len(result[2]) :
           Times(i, b) = (IF \E n \in 1..Len(Carried(i)) :
                               Carried(i)[n] = GetOwn(result[2][b], "name")
                          THEN 1 ELSE 0)

\* the description the top-level tags list gives for a name: that of the last
\* entry of the name, the empty string when there is none
Described(name) ==
  LET listed == Prop(spec, Ptr(<<>>), "tags")
      list == IF Tag(listed) = "ptr" THEN At(spec, listed[2])[2] ELSE <<>>
      same == {n \in 1..Len(list) : GetOwn(list[n], "name") = name}
  IN IF same = {} THEN Str(<<>>)
     ELSE LET last == CHOOSE n \in same : \A m \in same : m <= n
          IN IF HasOwn(list[last], "description") THEN GetOwn(list[last], "description")
             ELSE Str(<<>>)

\* C17: every Parsed Tag has the description of the same-named entry of the
\* top-level tags list, and the empty string when there is no such entry, no
\* description in it, or no tags list (the bucket Untagged included).
C17_DescriptionOrEmpty ==
  AfterGroup =>
    \A b \in 1..Len(result[2]) :
      GetOwn(result[2][b], "description") = Described(GetOwn(result[2][b], "name"))

RECURSIVE Distinct(_, _)
\* the elements of the sequence s that are not in seen, each once, in the
\* order of their first occurrence
Distinct(s, seen) ==
  IF s = <<>> THEN <<>>
  ELSE IF Head(s) \in seen THEN Distinct(Tail(s), seen)
  ELSE <<Head(s)>> \o Distinct(Tail(s), seen \cup {Head(s)})

RECURSIVE CarriedFrom(_)
\* the tag names of the endpoints i.. in scanning order
CarriedFrom(i) ==
  IF i > Len(endpoints[2]) THEN <<>>
  ELSE (IF Prop(spec, Prop(spec, endpoints[2][i], "operation"), "tags") = Undefined
        THEN <<Str(<<"Untagged">>)>> ELSE Declared(i))
       \o CarriedFrom(i + 1)

\* the position of an entry in the extracted list
PositionOf(e) == CHOOSE i \in 1..Len(endpoints[2]) : endpoints[2][i] = e

\* C18: the tags are returned in the order in which their names are first
\* met when scanning the endpoints in extraction order and the tags of each
\* in declared order; within a tag the endpoints are in extraction order; a
\* tag of the tags list that no endpoint carries is not returned.
C18_FirstEncounterOrder ==
  AfterGroup =>
    /\ [b \in 1..Len(result[2]) |-> GetOwn(result[2][b], "name")] = Distinct(CarriedFrom(1), {})
    /\ \A b \in 1..Len(result[2]) :
         LET es == GetOwn(result[2][b], "endpoints")[2]
         IN \A m, n \in 1..Len(es) : m < n => PositionOf(es[m]) <= PositionOf(es[n])

\* the grouping of a document whose tags list starts with pets and unused:
\* pets is met before store, unused is not returned, and pets holds at least
\* the endpoints get /a and post /a in extraction order
C18_Witness ==
  /\ AfterGroup
  /\ Described(Str(<<"unused">>)) = Str(<<"Unused">>)
  /\ Len(result[2]) >= 2
  /\ GetOwn(result[2][1], "name") = Str(<<"pets">>)
  /\ GetOwn(result[2][2], "name") = Str(<<"store">>)
  /\ Len(GetOwn(result[2][1], "endpoints")[2]) >= 2
  /\ \A b \in 1..Len(result[2]) : GetOwn(result[2][b], "name") # Str(<<"unused">>)

----------------------------------------------------------------------------
(* Properties of the Code Generators *)

\* the last call rendered a snippet
Rendered == op = "generateCode" /\ Tag(result) = "code"

\* the URL of the snippet
UrlOf(snippet) == snippet[4]

\* the parameters of the endpoint of the last call with the given scope
Scoped(where) ==
  SelectSeq(AllParams(spec, arg[2]), LAMBDA p : Prop(spec, p, "in") = Str(<<where>>))

\* the value a parameter has: its example, else the example of its schema,
\* else the default of its schema; Undefined when it has none
ValueOf(param) ==
  IF Prop(spec, param, "example") # Undefined THEN Prop(spec, param, "example")
  ELSE IF OptProp(spec, Prop(spec, param, "schema"), "example") # Undefined
  THEN OptProp(spec, Prop(spec, param, "schema"), "example")
  ELSE OptProp(spec, Prop(spec, param, "schema"), "default")

\* the text that takes the place of the slot {name}
Filled(name) ==
  LET named == {i \in 1..Len(Scoped("path")) :
                  Prop(spec, Scoped("path")[i], "name") = Str(<<name>>)}
  IN IF named = {} \/ \A i \in named : ValueOf(Scoped("path")[i]) = Undefined
     THEN <<"{", name, "}">>
     ELSE ToStr(spec, ValueOf(Scoped("path")[CHOOSE i \in named :
                                               ValueOf(Scoped("path")[i]) # Undefined]))

RECURSIVE FillSlots(_)
\* the path template s with each slot filled
FillSlots(s) ==
  IF s = <<>> THEN <<>>
  ELSE IF Len(s) >= 3 /\ s[1] = "{" /\ s[3] = "}"
  THEN Filled(s[2]) \o FillSlots(SubSeq(s, 4, Len(s)))
  ELSE <<Head(s)>> \o FillSlots(Tail(s))

\* the URL of the last call up to its query string
ExpectedUrl ==
  GetOwn(arg[3], "baseUrl")[2] \o FillSlots(GetOwn(arg[2], "path")[2])

\* C19: in the URL of every snippet each slot {name} of a path parameter is
\* replaced by the example value of the parameter if it has one, otherwise by
\* its default value, and stays {name} only when it has neither.
C19_PathSlotsFilled ==
  Rendered =>
    /\ StartsWith(UrlOf(result), ExpectedUrl)
    /\ Len(UrlOf(result)) > Len(ExpectedUrl) => UrlOf(result)[Len(ExpectedUrl) + 1] = "?"

\* the pairs name=value of the query parameters that have a value, encoded
ExpectedPairs ==
  LET valued == SelectSeq(Scoped("query"), LAMBDA p : ValueOf(p) # Undefined)
  IN [i \in 1..Len(valued) |->
        ToStr(spec, Prop(spec, valued[i], "name")) \o <<"=">>
        \o [n \in 1..Len(ToStr(spec, ValueOf(valued[i]))) |->
              PercentCode(ToStr(spec, ValueOf(valued[i]))[n])]]

\* the part of a URL from its first question mark on
QueryStringOf(url) ==
  IF IndexOf(url, <<"?">>) = 0 THEN <<>> ELSE SubSeq(url, IndexOf(url, <<"?">>), Len(url))

\* C20: the query string of every snippet has one encoded pair name=value
\* for each query parameter that has an example or default value, in
\* parameter order, and nothing for one that has neither; when no query
\* parameter has a value the URL has no query string.
C20_QueryOfValuedParameters ==
  Rendered =>
    QueryStringOf(UrlOf(result)) =
      (IF ExpectedPairs = <<>> THEN <<>> ELSE <<"?">> \o JoinWith(ExpectedPairs, "&"))

\* the application/json media of the request body of the endpoint of the
\* last call, Undefined when the operation has none
MediaOf ==
  OptProp(spec, OptProp(spec, OptProp(spec, Prop(spec, arg[2], "operation"), "requestBody"),
                        "content"), "application/json")

\* the payload of a snippet, Undefined when it sends no body
PayloadOf(snippet) == snippet[6]

\* the verb of the endpoint of the last call
VerbOf == GetOwn(arg[2], "method")[2][1]

BodyVerbs == {"post", "put", "patch"}

\* the body the claim C21 describes: the literal example if the media has
\* one, else what the schema of the media synthesizes to, else none
ExpectedBody ==
  IF OptProp(spec, MediaOf, "example") # Undefined THEN OptProp(spec, MediaOf, "example")
  ELSE IF OptProp(spec, MediaOf, "schema") # Undefined
  THEN ExampleOf(OptProp(spec, MediaOf, "schema"))
  ELSE Null

\* C21: the request body is the literal example of the application/json
\* media whenever one is present, whatever its value, else the value
\* synthesized from its schema, else none; seen in the payload of the snippets
\* of the body-bearing verbs (a falsy body that is not null may be left out,
\* which is the matter of C23).
C21_LiteralExampleFirst ==
  Rendered /\ VerbOf \in BodyVerbs =>
    IF ExpectedBody = Null THEN PayloadOf(result) = Undefined
    ELSE IF Truthy(ExpectedBody) THEN PayloadOf(result) = Stringify(spec, ExpectedBody)
    ELSE PayloadOf(result) \in {Undefined, Stringify(spec, ExpectedBody)}

\* the header set of a snippet has the header key with the value text
HasHeader(snippet, key, text) ==
  \E i \in 1..Len(snippet[5]) : snippet[5][i] = <<key, Str(text)>>

\* the headers and the token the caller passed to the last call
CallerHeaders == Entries(Or(Prop(spec, arg[3], "headers"), Obj(<<>>)))
CallerToken == Prop(spec, arg[3], "authToken")
NonEmptyToken == Tag(CallerToken) = "str" /\ CallerToken[2] # <<>>

\* C22 as stated: the header set always contains Content-Type:
\* application/json, every caller-supplied header, Authorization: Bearer
\* <token> when the token is non-empty, and no added Authorization otherwise.
C22_HeadersAlwaysContain ==
  Rendered =>
    /\ HasHeader(result, "Content-Type", <<"application/json">>)
    /\ \A i \in 1..Len(CallerHeaders) :
         \E n \in 1..Len(result[5]) : result[5][n] = CallerHeaders[i]
    /\ NonEmptyToken => HasHeader(result, "Authorization", <<"Bearer", " ">> \o CallerToken[2])
    /\ ~NonEmptyToken =>
         \A n \in 1..Len(result[5]) :
           result[5][n][1] = "Authorization" =>
             \E i \in 1..Len(CallerHeaders) : CallerHeaders[i] = result[5][n]

\* the caller passed a header of the given key
CallerHas(key) == \E i \in 1..Len(CallerHeaders) : CallerHeaders[i][1] = key

\* C22 amended: the header set contains Content-Type: application/json unless
\* the caller supplies a Content-Type header, which then takes its place;
\* every caller-supplied header, but for an Authorization header when the
\* token is non-empty; Authorization: Bearer <token> when the token is
\* non-empty; and no Authorization but the caller's own otherwise.
C22_HeadersMerged ==
  Rendered =>
    /\ ~CallerHas("Content-Type") => HasHeader(result, "Content-Type", <<"application/json">>)
    /\ \A i \in 1..Len(CallerHeaders) :
         (CallerHeaders[i][1] = "Authorization" /\ NonEmptyToken)
         \/ \E n \in 1..Len(result[5]) : result[5][n] = CallerHeaders[i]
    /\ NonEmptyToken => HasHeader(result, "Authorization", <<"Bearer", " ">> \o CallerToken[2])
    /\ ~NonEmptyToken =>
         \A n \in 1..Len(result[5]) :
           result[5][n][1] = "Authorization" =>
             \E i \in 1..Len(CallerHeaders) : CallerHeaders[i] = result[5][n]

\* a snippet was rendered for a caller with an empty token and an
\* Authorization header of its own, which is the only one in the set
C22_Witness ==
  /\ Rendered
  /\ CallerToken = Str(<<>>)
  /\ CallerHas("Authorization")
  /\ HasHeader(result, "Authorization", <<"Basic", " ", "x">>)
  /\ HasHeader(result, "Content-Type", <<"application/json">>)

\* the body the generators computed for the endpoint of the last call
ComputedBody == getRequestBody(spec, arg[2]).v

\* C23: the snippet includes a body if and only if the verb is post, put or
\* patch and a body value was computed (is not null).
C23_BodyOnlyForBodyVerbs ==
  Rendered =>
    (PayloadOf(result) # Undefined <=> (VerbOf \in BodyVerbs /\ ComputedBody # Null))

----------------------------------------------------------------------------
(* Properties of the Spec Loader *)

\* the text of the last parse
ParsedText == arg[2][1]

\* the value the two parsers yield for a text: that of the JSON parser, that
\* of the YAML parser only if the JSON parser fails; Undefined with the mark
\* "none" when both fail
ParsedValue(content) ==
  IF ~IsThrow(JSONParse(content)) THEN <<"some", JSONParse(content)>>
  ELSE IF ~IsThrow(YamlLoad(content)) THEN <<"some", YamlLoad(content)>>
  ELSE <<"none", Undefined>>

\* a value of any shape that lacks the openapi field or the paths map
LacksFields(v) == Tag(v) # "obj" \/ ~HasOwn(v, "openapi") \/ ~HasOwn(v, "paths")

\* C24: JSON is tried first and YAML only if JSON fails; the parse fails
\* with 'Failed to parse spec...' when neither succeeds and with 'Invalid
\* OpenAPI spec...' when the result, of any shape, null or a scalar included,
\* lacks the openapi field or the paths map; otherwise the parsed document is
\* returned as it is.
C24_ParseOrParseError ==
  op = "parseOpenAPISpec" =>
    result = (IF ParsedValue(ParsedText)[1] = "none" THEN FailedToParse
              ELSE IF LacksFields(ParsedValue(ParsedText)[2]) THEN InvalidSpec
              ELSE ParsedValue(ParsedText)[2])

----------------------------------------------------------------------------
(* Properties of the hook and of the page *)

\* in this step a load fails
Fails ==
  \E t \in 1..Len(loads') :
    /\ loads'[t][2] = "failed"
    /\ (t > Len(loads) \/ loads[t][2] # "failed")

\* C25: a failed load installs nothing: the step in which loadSpec,
\* loadFromUrl or loadFromFile fails (request failed, response not ok, file
\* not read, text not parsed, required fields missing) leaves spec, endpoints
\* and tags as they were and leaves a message in error.
C25_FailedLoadInstallsNothing ==
  [][Fails => /\ spec' = spec
              /\ endpoints' = endpoints
              /\ tags' = tags
              /\ error' # Null]_vars

\* a second load has failed after a first one installed a document other
\* than the sample, which is still the active one
C25_Witness ==
  /\ Len(loads) = 2
  /\ loads[2][2] = "failed"
  /\ installed = 1
  /\ spec = LoadedA
  /\ error # Null

\* C26: in every state of the hook, endpoints is extractEndpoints(spec) and
\* tags is groupEndpointsByTag(spec, endpoints) for the current spec.
C26_ViewsOfCurrentSpec ==
  /\ endpoints = extractEndpoints(spec).v
  /\ tags = groupEndpointsByTag(spec, endpoints).v

\* an uploaded document is active after a load that overlapped another, and
\* a later load has failed
C26_Witness ==
  /\ Len(loads) = 2
  /\ loads[1][1] = "url"
  /\ loads[2][1] = "file"
  /\ 1 \in loads[2][3]
  /\ loads[1][2] = "failed"
  /\ installed = 2
  /\ spec = LoadedB
  /\ Len(tags[2]) > 0

\* load b was started while the earlier loadFromUrl a was in flight, and both
\* have succeeded
Overlapped(a, b) ==
  /\ a \in loads[b][3]
  /\ loads[b][1] \in {"url", "file", "reset"}
  /\ loads[a][2] = "ok"
  /\ loads[b][2] = "ok"

\* C27: when a load B (loadFromUrl, loadFromFile, resetToSample) was started
\* while an earlier loadFromUrl A was in flight and both have succeeded, the
\* active document is not A's but B's, whichever of the two resolved first.
C27_NewLoadOverwrites ==
  \A a, b \in 1..Len(loads) : Overlapped(a, b) => installed # a

\* the ids of the entries of a list are pairwise different
UniqueIds(es) == \A i, j \in 1..Len(es[2]) : i # j => Ids(es)[i] # Ids(es)[j]

\* C28: within one result of extractEndpoints no two entries have the same
\* id, so that an id names one endpoint.
C28_IdsUnique == op = "extractEndpoints" => UniqueIds(result)

\* every load that was started has succeeded or failed
Settled == \A t \in 1..Len(loads) : loads[t][2] \in {"ok", "failed"}

\* the endpoint is one of those the current tags list
Listed(e) ==
  \E b \in 1..Len(tags[2]) :
    \E n \in 1..Len(GetOwn(tags[2][b], "endpoints")[2]) :
      GetOwn(tags[2][b], "endpoints")[2][n] = e

\* C29: once the loads have settled and the effects have run, the selected
\* endpoint is null or one of the endpoints in the current tags of the
\* current document.
C29_SelectedIsCurrent ==
  Settled => (selectedEndpoint = Null \/ Listed(selectedEndpoint))

\* C30: loading is true in every state in which some loadFromUrl call is in
\* flight, and false once no load is in flight.
C30_LoadingWhileInFlight ==
  /\ InFlight # {} => loading = TRUE
  /\ Settled => loading = FALSE

====
